---- MODULE Spec2Model ----
(***************************************************************************)
(* Security/Anti-Raid engine of gearshift-bot (src/cogs/security.py).      *)
(*                                                                         *)
(* One specification per subsystem, all over the same variables:           *)
(*   LockSpec   lockdown / unlock command handlers, one step per           *)
(*              resumption from an await, so that handlers overlap         *)
(*              exactly where the coroutines can.                          *)
(*   NukeSpec   the anti-nuke detector: the ban / member-remove /          *)
(*              channel-delete hooks, the audit trail they read, the       *)
(*              clock, and role edits by administrators.                   *)
(*   MsgSpec    the spam classifier: on_message over messages written      *)
(*              word by word, with every call of its try blocks able to    *)
(*              raise.                                                     *)
(*   GuardSpec  every handler that takes a protective action on an         *)
(*              account (on_member_join, on_message, the anti-nuke hooks,  *)
(*              silence and its deferred unmute), for immunity.            *)
(*   MuteSpec   silence and its deferred unmute, with the mute role        *)
(*              configured, unconfigured or deleted, members leaving and   *)
(*              role edits between the two sweeps.                         *)
(*   ConfSpec   the configuration: starts that find any kind of            *)
(*              security_config.json, and set_min_age commands.            *)
(*   RestartSpec  lockdown / unlock commands and bans with process         *)
(*              restarts between and inside the handlers.                  *)
(*   SkipSpec   the anti-nuke hooks under every skip condition of          *)
(*              _check_anti_nuke.                                          *)
(*   AgeSpec    set_min_age commands and the joins judged by the minimum   *)
(*              account age they set.                                      *)
(*   SweepSpec  the sweeps that report counts: lockdown, unlock and        *)
(*              silence, with calls that raise.                            *)
(*   AttrSpec   bans by two staff members whose hooks read the audit       *)
(*              trail in any order.                                        *)
(*   RetrySpec  set_min_age and silence commands repeated.                 *)
(***************************************************************************)
EXTENDS Integers, Sequences, FiniteSets, TLC

VARIABLES
    channels,        \* guild.channels: ids of the channels that exist
    deleted,         \* ids of channels that existed and were deleted
    overwrites,      \* per channel: the @everyone PermissionOverwrite (4 tracked flags)
    lockdown_state,  \* self.lockdown_state: str(guild.id) -> record
    lockdown_file,   \* contents of lockdown_state.json
    cmd,             \* per handler slot: the coroutine's position and locals
    ncmds,           \* commands issued so far
    nenv,            \* gateway disturbances so far
    rt,              \* history: the round trip being observed
    roles,           \* member.roles of every member
    bot_config,      \* self.bot.config['roles']: staff and immune role ids
    security_config, \* self.security_config
    security_file,   \* contents of security_config.json, or its absence
    staff_actions,   \* self.staff_actions: str(user.id) -> action_type -> entry
    now,             \* datetime.utcnow(), in seconds
    trail,           \* audit trail: the actor of the newest entry of each action kind
    pending,         \* gateway events dispatched, their handler not yet past its audit read
    nacts,           \* actions, joins, messages, role edits and silences so far
    inbox,           \* a message on its way to on_message, or NoMsg
    sleepers,        \* silence handlers asleep before their unmute sweep
    hist,            \* history: per (actor, kind) the last qualifying checks
    out              \* what the handler that ran last did

lockVars == <<channels, deleted, overwrites, lockdown_state, lockdown_file,
              cmd, ncmds, nenv, rt>>

guardVars == <<roles, bot_config, security_config, security_file, staff_actions, now, trail,
               pending, nacts, inbox, sleepers, hist, out>>

vars == <<lockVars, guardVars>>

----------------------------------------------------------------------------
(* Bounds *)

\* command invocations (lockdown / unlock) in one behaviour
MaxCmds == 3
\* gateway disturbances in one behaviour: channel creations, channel
\* deletions, failing permission edits
MaxEnv == 1
\* handler slots: commands in flight at the same time
Slots == {"h1", "h2"}
SlotNo(s) == IF s = "h1" THEN 1 ELSE 2

----------------------------------------------------------------------------
(* Channels and permission overwrites *)

\* tri-state flag of a PermissionOverwrite: True, False, None (inherited)
Tri == {"True", "False", "None"}

Flags == {"send_messages", "connect", "speak", "view_channel"}

ChanIds == {1, 2, 3, 4}
InitialChans == {1, 2, 3}

\* isinstance(channel, discord.TextChannel / discord.VoiceChannel)
ChanKind(c) ==
    CASE c = 1 -> "text"
      [] c = 2 -> "voice"
      [] c = 3 -> "category"
      [] OTHER -> "text"

\* discord.PermissionOverwrite(**kwargs): every flag not given is None
PermissionOverwrite(kwargs) ==
    [f \in Flags |-> IF f \in DOMAIN kwargs THEN kwargs[f] ELSE "None"]

EmptyOverwrite == PermissionOverwrite(<<>>)

\* the overwrites a channel can start with
Profile(i) ==
    CASE i = 0 -> [send_messages |-> "True",  connect |-> "False", speak |-> "None",  view_channel |-> "False"]
      [] i = 1 -> [send_messages |-> "False", connect |-> "True",  speak |-> "True",  view_channel |-> "None"]
      [] OTHER -> [send_messages |-> "None",  connect |-> "None",  speak |-> "False", view_channel |-> "True"]

Profiles == {Profile(i) : i \in 0..2}

\* str(guild.id), str(channel.id): the keys of the JSON document
Str(id) == <<"str", id>>

TheGuild == 100
GuildKey == Str(TheGuild)

\* guild.channels as the list the for-loop iterates (a snapshot, in id order)
RECURSIVE SortedSeq(_)
SortedSeq(S) ==
    IF S = {} THEN <<>>
    ELSE LET m == CHOOSE x \in S : \A y \in S : x <= y
         IN  <<m>> \o SortedSeq(S \ {m})

\* dict with one key added or replaced
Put(d, k, v) == [x \in DOMAIN d \cup {k} |-> IF x = k THEN v ELSE d[x]]

\* del d[k]
Del(d, k) == [x \in DOMAIN d \ {k} |-> d[x]]

EmptyDict == <<>>

----------------------------------------------------------------------------
(* Handler slots *)

NoChan == 0

IdleCmd ==
    [op |-> "none", pc |-> "idle", user |-> 0, todo |-> <<>>, cur |-> NoChan,
     original_perms |-> EmptyDict, ok |-> 0, failed |-> 0, reply |-> "none"]

InFlight(s) == cmd[s].pc \in {"defer", "edit"}

\* a new invocation runs in the first slot that holds no running handler
FreeSlot(s) ==
    /\ ~InFlight(s)
    /\ \A t \in Slots : ~InFlight(t) => SlotNo(s) <= SlotNo(t)

\* interaction.user.id of the n-th command
Invoker(n) == 1000 + n

\* a handler ended by an exception that reached the command error handler
Failed(op, user) == [IdleCmd EXCEPT !.op = op, !.user = user, !.pc = "error"]

\* the summary without its count of failures
Finished_FailedDropped(op, user, reply, nok, nfail) ==
    [IdleCmd EXCEPT !.op = op, !.user = user, !.pc = "done", !.reply = reply,
                    !.ok = nok]

\* a finished handler: its locals are gone, its reply stays
Finished(op, user, reply, nok, nfail) ==
    [IdleCmd EXCEPT !.op = op, !.user = user, !.pc = "done", !.reply = reply,
                    !.ok = nok, !.failed = nfail]

----------------------------------------------------------------------------
(* lockdown *)

\* lines 181-212 between two awaits: capture each channel's overwrite into
\* original_perms; stop at the first text/voice channel, whose
\* set_permissions call is awaited; channels of another kind are only captured
RECURSIVE LockScan(_, _, _)
LockScan(todo, orig, ow) ==
    IF todo = <<>> THEN [todo |-> <<>>, cur |-> NoChan, orig |-> orig]
    ELSE LET c == Head(todo)
             o == Put(orig, Str(c), ow[c])
         IN  IF ChanKind(c) \in {"text", "voice"}
             THEN [todo |-> Tail(todo), cur |-> c, orig |-> o]
             ELSE LockScan(Tail(todo), o, ow)

\* the keyword arguments of the lockdown's set_permissions call
LockKwargs(c) ==
    IF ChanKind(c) = "text"
    THEN [send_messages |-> "False"]
    ELSE [connect |-> "False", speak |-> "False"]

\* channel.set_permissions(everyone_role, **kwargs): the overwrite is replaced
\* by PermissionOverwrite(**kwargs)
SetPermissions(old, kwargs) == PermissionOverwrite(kwargs)

\* an awaited set_permissions on channel c returns (done) or raises: on a
\* channel that is gone it always raises; any other call may fail while the
\* disturbance budget lasts
EditOutcome(c, done) ==
    /\ done => c \in channels
    /\ nenv' = IF ~done /\ c \in channels THEN nenv + 1 ELSE nenv
    /\ nenv' <= MaxEnv

\* lines 214-221: store the record and rewrite the document
LockRecord(s, orig) ==
    [moderator_id |-> Str(cmd[s].user), original_perms |-> orig]

\* the state check left out: every lockdown proceeds
AlreadyLocked_Unchecked(ls) == FALSE

\* line 163: str(interaction.guild.id) in self.lockdown_state
AlreadyLocked(ls) == GuildKey \in DOMAIN ls

LockdownStart(s) ==
    /\ FreeSlot(s)
    /\ ncmds < MaxCmds
    /\ ncmds' = ncmds + 1
    /\ IF AlreadyLocked(lockdown_state)
       THEN /\ cmd' = [cmd EXCEPT ![s] = Finished("lockdown", Invoker(ncmds + 1), "AlreadyLocked", 0, 0)]
            /\ rt' = rt
       ELSE /\ cmd' = [cmd EXCEPT ![s] = [IdleCmd EXCEPT !.op = "lockdown", !.user = Invoker(ncmds + 1),
                                              !.pc = "defer"]]
            /\ rt' = IF \E t \in Slots \ {s} : InFlight(t)
                     THEN [rt EXCEPT !.clean = FALSE]
                     ELSE [phase |-> "locking", pre |-> overwrites, clean |-> TRUE,
                           restarted |-> FALSE]
    /\ UNCHANGED <<channels, deleted, overwrites, lockdown_state, lockdown_file, nenv>>

\* the loop from where it stands to the next await, or past its end
LockdownContinue(s, todo, orig, ow, nok, nfail, clean) ==
    LET r == LockScan(todo, orig, ow)
    IN  /\ overwrites' = ow
        /\ IF r.cur # NoChan
           THEN /\ cmd' = [cmd EXCEPT ![s].pc = "edit", ![s].todo = r.todo, ![s].cur = r.cur,
                                      ![s].original_perms = r.orig,
                                      ![s].ok = nok, ![s].failed = nfail]
                /\ rt' = [rt EXCEPT !.clean = clean]
                /\ UNCHANGED <<lockdown_state, lockdown_file>>
           ELSE \* lines 214-235: store the record, rewrite the document, log,
                \* and send the summary to the caller
                /\ cmd' = [cmd EXCEPT ![s] = Finished("lockdown", @.user, "LockdownActivated",
                                                      nok, nfail)]
                /\ lockdown_state' = Put(lockdown_state, GuildKey, LockRecord(s, r.orig))
                /\ lockdown_file' = lockdown_state'
                /\ rt' = [rt EXCEPT !.clean = clean,
                                    !.phase = IF clean THEN "locked" ELSE @]

\* after `await interaction.response.defer`: lines 172-181
LockdownResume(s) ==
    /\ cmd[s].op = "lockdown" /\ cmd[s].pc = "defer"
    /\ LockdownContinue(s, SortedSeq(channels), EmptyDict, overwrites, 0, 0, rt.clean)
    /\ UNCHANGED <<channels, deleted, ncmds, nenv>>

\* the sweep stopped at the first edit that raises
AfterEdit_Abort(todo, done) == IF done THEN todo ELSE <<>>

\* lines 182-212: the try block lies inside the for loop, so after an edit
\* that returned or raised the loop goes on with the channels left
AfterEdit(todo, done) == todo

\* the awaited set_permissions returns (done = TRUE) or raises
LockdownEdit(s, done) ==
    /\ cmd[s].op = "lockdown" /\ cmd[s].pc = "edit"
    /\ EditOutcome(cmd[s].cur, done)
    /\ LET c  == cmd[s].cur
           ow == IF done
                 THEN [overwrites EXCEPT ![c] = SetPermissions(@, LockKwargs(c))]
                 ELSE overwrites
       IN  LockdownContinue(s, AfterEdit(cmd[s].todo, done), cmd[s].original_perms, ow,
                            cmd[s].ok + (IF done THEN 1 ELSE 0),
                            cmd[s].failed + (IF done THEN 0 ELSE 1),
                            rt.clean /\ done)
    /\ UNCHANGED <<channels, deleted, ncmds>>

----------------------------------------------------------------------------
(* unlock *)

\* the saved entry ignored: every channel's overwrite is cleared
UnlockResult_ClearAlways(orig, c, old) == EmptyOverwrite

\* lines 267-289: the call issued for one channel
UnlockResult(orig, c, old) ==
    IF Str(c) \in DOMAIN orig
    THEN SetPermissions(old, [send_messages |-> orig[Str(c)].send_messages,
                              connect       |-> orig[Str(c)].connect,
                              speak         |-> orig[Str(c)].speak,
                              view_channel  |-> orig[Str(c)].view_channel])
    ELSE EmptyOverwrite

\* the state check left out: every unlock proceeds
NotLocked_Unchecked(ls) == FALSE

\* line 248: guild_id not in self.lockdown_state
NotLocked(ls) == GuildKey \notin DOMAIN ls

UnlockStart(s) ==
    /\ FreeSlot(s)
    /\ ncmds < MaxCmds
    /\ ncmds' = ncmds + 1
    /\ IF NotLocked(lockdown_state)
       THEN /\ cmd' = [cmd EXCEPT ![s] = Finished("unlock", Invoker(ncmds + 1), "NotLocked", 0, 0)]
            /\ rt' = rt
       ELSE /\ cmd' = [cmd EXCEPT ![s] = [IdleCmd EXCEPT !.op = "unlock", !.user = Invoker(ncmds + 1),
                                              !.pc = "defer"]]
            /\ rt' = IF (\E t \in Slots \ {s} : InFlight(t)) \/ rt.phase # "locked"
                     THEN [rt EXCEPT !.clean = FALSE]
                     ELSE [rt EXCEPT !.phase = "unlocking"]
    /\ UNCHANGED <<channels, deleted, overwrites, lockdown_state, lockdown_file, nenv>>

\* lines 291-293, reached when the sweep is over
UnlockFinish(s, nok, nfail, clean) ==
    IF GuildKey \in DOMAIN lockdown_state
    THEN \* lines 291-304: delete the record, rewrite the document, log, and
         \* send the summary to the caller
         /\ lockdown_state' = Del(lockdown_state, GuildKey)
         /\ lockdown_file' = lockdown_state'
         /\ cmd' = [cmd EXCEPT ![s] = Finished("unlock", @.user, "Unlocked", nok, nfail)]
         /\ rt' = [rt EXCEPT !.clean = clean,
                             !.phase = IF clean THEN "restored" ELSE @]
    ELSE \* del raises KeyError: the command's error handler runs, the
         \* response is already deferred, nothing is sent
         /\ cmd' = [cmd EXCEPT ![s] = Failed("unlock", @.user)]
         /\ rt' = [rt EXCEPT !.clean = FALSE]
         /\ UNCHANGED <<lockdown_state, lockdown_file>>

\* after `await interaction.response.defer`: lines 257-265
UnlockResume(s) ==
    /\ cmd[s].op = "unlock" /\ cmd[s].pc = "defer"
    /\ IF GuildKey \notin DOMAIN lockdown_state
       THEN \* self.lockdown_state[guild_id] raises KeyError
            /\ cmd' = [cmd EXCEPT ![s] = Failed("unlock", @.user)]
            /\ rt' = [rt EXCEPT !.clean = FALSE]
            /\ UNCHANGED <<lockdown_state, lockdown_file>>
       ELSE LET orig == lockdown_state[GuildKey].original_perms
                todo == SortedSeq(channels)
            IN  IF todo = <<>>
                THEN UnlockFinish(s, 0, 0, rt.clean)
                ELSE /\ cmd' = [cmd EXCEPT ![s].pc = "edit", ![s].original_perms = orig,
                                           ![s].cur = Head(todo), ![s].todo = Tail(todo)]
                     /\ UNCHANGED <<lockdown_state, lockdown_file, rt>>
    /\ UNCHANGED <<channels, deleted, overwrites, ncmds, nenv>>

\* the awaited set_permissions returns (done = TRUE) or raises
UnlockEdit(s, done) ==
    /\ cmd[s].op = "unlock" /\ cmd[s].pc = "edit"
    /\ EditOutcome(cmd[s].cur, done)
    /\ LET c     == cmd[s].cur
           nok   == cmd[s].ok + (IF done THEN 1 ELSE 0)
           nfail == cmd[s].failed + (IF done THEN 0 ELSE 1)
       IN  /\ overwrites' = IF done
                            THEN [overwrites EXCEPT
                                    ![c] = UnlockResult(cmd[s].original_perms, c, @)]
                            ELSE overwrites
           /\ IF cmd[s].todo # <<>>
              THEN /\ cmd' = [cmd EXCEPT ![s].cur = Head(cmd[s].todo),
                                         ![s].todo = Tail(cmd[s].todo),
                                         ![s].ok = nok, ![s].failed = nfail]
                   /\ rt' = [rt EXCEPT !.clean = @ /\ done]
                   /\ UNCHANGED <<lockdown_state, lockdown_file>>
              ELSE UnlockFinish(s, nok, nfail, rt.clean /\ done)
    /\ UNCHANGED <<channels, deleted, ncmds>>

----------------------------------------------------------------------------
(* The gateway: channels come and go *)

\* the @everyone overwrite a channel is created with
CreatedOverwrite == Profile(0)

ChannelCreate(c) ==
    /\ c \notin channels /\ c \notin deleted
    /\ nenv < MaxEnv
    /\ nenv' = nenv + 1
    /\ channels' = channels \cup {c}
    /\ overwrites' = [overwrites EXCEPT ![c] = CreatedOverwrite]
    /\ rt' = [rt EXCEPT !.clean = FALSE]
    /\ UNCHANGED <<deleted, lockdown_state, lockdown_file, cmd, ncmds>>

ChannelDelete(c) ==
    /\ c \in channels
    /\ nenv < MaxEnv
    /\ nenv' = nenv + 1
    /\ channels' = channels \ {c}
    /\ deleted' = deleted \cup {c}
    /\ overwrites' = [overwrites EXCEPT ![c] = EmptyOverwrite]
    /\ rt' = [rt EXCEPT !.clean = FALSE]
    /\ UNCHANGED <<lockdown_state, lockdown_file, cmd, ncmds>>

----------------------------------------------------------------------------
(* Members, roles, configuration *)

\* privileged actions (ban, kick, channel delete), leaves, joins, whole
\* messages, role edits by administrators and silence commands in one
\* behaviour
MaxActions == 4
\* the same, in one behaviour of GuardSpec
MaxEvents == 3
\* clock advances of 20 seconds that fit in one behaviour
MaxTicks == 4

\* self.bot.user.id
BotSelf == 900
\* an account with user.bot set
OtherBot == 3
\* an account that is not in the guild at first
Newcomer == 4
Humans == {1, 2, Newcomer}
Members == Humans \cup {BotSelf, OtherBot}
NoUser == 0
NoMsg == <<>>

IsBot(u) == u \in {BotSelf, OtherBot}

\* guild.default_role
Everyone == "everyone"
StaffRole == "staff"
ImmuneRole == "immune"
MuteRole == "mute"
QuarantineRole == "quarantine"
\* a role id that is configured but whose role was deleted from the guild
GoneRole == "gone"
\* a role id that is None or 0
NoRole == "none"

\* a channel id that is None
NoChannelId == "none"

GuildRoles == {Everyone, StaffRole, ImmuneRole, MuteRole, QuarantineRole}

\* every id resolved to a role, deleted or not
GetRole_Any(role_id) == role_id

\* guild.get_role(role_id): the role, or None
GetRole(role_id) == IF role_id \in GuildRoles THEN role_id ELSE NoRole

\* the immunity test gone: nobody is immune
IsImmune_Never(u) == FALSE

\* lines 44-56: Security._is_immune
IsImmune(u) ==
    LET immune_role_id == bot_config.immune
    IN  IF immune_role_id = NoRole THEN FALSE
        ELSE IF GetRole(immune_role_id) = NoRole THEN FALSE
        ELSE GetRole(immune_role_id) \in roles[u]

\* lines 78-91: default_config
DefaultConfig ==
    [min_account_age_days    |-> 7,
     quarantine_role_id      |-> NoRole,
     mute_role_id            |-> NoRole,
     welcome_channel_id      |-> NoChannelId,
     verification_channel_id |-> NoChannelId,
     link_spam_threshold     |-> 3,
     mention_spam_threshold  |-> 5,
     auto_quarantine_enabled |-> TRUE,
     auto_age_check_enabled  |-> TRUE,
     link_filter_enabled     |-> TRUE,
     mention_filter_enabled  |-> TRUE,
     anti_nuke_enabled       |-> TRUE]

\* the keys a configuration document can lack
ConfigKeys == DOMAIN DefaultConfig

\* security_config.json as a readable JSON object
Document(doc) == [state |-> "object", doc |-> doc]

\* no security_config.json
AbsentFile == [state |-> "absent", doc |-> EmptyDict]

\* a security_config.json that json.load or the key loop raises on
UnreadableFile == [state |-> "unreadable", doc |-> EmptyDict]

\* lines 109-117: the file after _save_security_config(config)
Saved(config) == Document(config)

\* the defaults never filled in
MergeDefaults_None(config) == config

\* lines 97-99: every default key the document lacks is added
MergeDefaults(config) ==
    [key \in DOMAIN config \cup ConfigKeys |->
        IF key \in DOMAIN config THEN config[key] ELSE DefaultConfig[key]]

\* lines 76-107: _load_security_config, the configuration it returns
LoadSecurityConfig(file) ==
    IF file.state = "object" THEN MergeDefaults(file.doc) ELSE DefaultConfig

\* lines 76-107: security_config.json after _load_security_config (the
\* defaults are written when the file is absent or the load raised)
FileAfterLoad(file) ==
    IF file.state = "object" THEN file ELSE Saved(DefaultConfig)

\* no values cited in the reason of a call
NoReason == <<>>

\* a call made to the gateway by a handler
Call(op, target, rs, mins) ==
    [op |-> op, target |-> target, roles |-> rs, mins |-> mins, reason |-> NoReason]

\* nothing read, nothing given
NoSeen == <<>>
NoInput == <<>>

\* what a handler did: the account it was run for, the member.roles it read
\* (per member), its input, the gateway calls it issued in order, the
\* positions of those that raised, and the lines it wrote to the logger
NoOut ==
    [handler |-> "none", subject |-> NoUser, seen |-> NoSeen, kind |-> "none",
     cause |-> NoUser, input |-> NoInput, calls |-> <<>>, failed |-> {},
     log |-> <<>>]

----------------------------------------------------------------------------
(* Anti-nuke detector *)

\* line 32
nuke_threshold == 5
\* line 33
nuke_time_window == 60

\* the action kinds the three hooks pass to _check_anti_nuke
Kinds == {"ban", "kick", "channel_delete"}

\* line 731
SuspiciousActions == {"channel_delete", "ban", "kick", "role_delete", "webhook_delete"}

\* line 732: any(sa in action_type ...); none of these names is a substring
\* of another, so for the kinds passed the substring test is equality
Suspicious(action_type) == \E sa \in SuspiciousActions : sa = action_type

\* now.isoformat() and datetime.fromisoformat(): a timestamp and its string
IsoFormat(t) == <<"iso", t>>
FromIsoFormat(str) == str[2]
NoneTime == <<>>

\* the window test gone: the count only ever grows
NextCount_NoReset(entry, t) == entry.count + 1

\* lines 736-744: the new count of an entry
NextCount(entry, t) ==
    IF entry.last_action # NoneTime
    THEN IF t - FromIsoFormat(entry.last_action) < nuke_time_window
         THEN entry.count + 1
         ELSE 1
    ELSE 1

\* the comparison off by one
ThresholdReached_Above(count) == count > nuke_threshold

\* line 749
ThresholdReached(count) == count >= nuke_threshold

\* no early return at all
NukeSkips_Never(u) == FALSE

\* lines 702-721: the conditions under which _check_anti_nuke returns at once
NukeSkips(u) ==
    \/ ~security_config.anti_nuke_enabled
    \/ u = NoUser
    \/ IsBot(u)
    \/ IsImmune(u)
    \/ bot_config.staff = NoRole
    \/ GetRole(bot_config.staff) = NoRole
    \/ GetRole(bot_config.staff) \notin roles[u]

\* lines 724-746: the staff-action map after one tracked action at time t
Track(sa, u, action_type, t) ==
    LET user_id == Str(u)
        sa1 == IF user_id \in DOMAIN sa THEN sa ELSE Put(sa, user_id, EmptyDict)
    IN  IF ~Suspicious(action_type) THEN sa1
        ELSE LET e0 == IF action_type \in DOMAIN sa1[user_id]
                       THEN sa1[user_id][action_type]
                       ELSE [count |-> 0, last_action |-> NoneTime]
                 e1 == [count |-> NextCount(e0, t), last_action |-> IsoFormat(t)]
             IN  Put(sa1, user_id, Put(sa1[user_id], action_type, e1))

\* the audit-trail action kind each hook asks for (lines 774, 785, 796)
HookKind(hook) ==
    CASE hook = "ban"    -> "ban"
      [] hook = "remove" -> "kick"
      [] OTHER           -> "channel_delete"

AntiNukeHooks == {"ban", "remove", "channel_delete"}

\* no entry is taken for the bot's own
SelfCaused_Never(user) == FALSE

\* lines 775, 786, 797: the actor of the audit entry is the bot itself
SelfCaused(user) == user = BotSelf

Event(hook, cause, kind) == [hook |-> hook, cause |-> cause, kind |-> kind]

RemoveAt(seq, i) == SubSeq(seq, 1, i - 1) \o SubSeq(seq, i + 1, Len(seq))

\* the last n elements of a sequence
LastN(seq, n) == IF Len(seq) <= n THEN seq ELSE SubSeq(seq, Len(seq) - n + 1, Len(seq))

\* history only: the actor is one the detector is meant to watch
Qualifies(u) ==
    /\ security_config.anti_nuke_enabled
    /\ u \in Humans
    /\ bot_config.staff \in roles[u]
    /\ bot_config.immune \notin roles[u]

\* a privileged action by actor a (the bot itself when it is one the bot
\* performs on a command): the gateway appends to the audit trail and
\* dispatches the events (a ban also removes the member from the guild).  The
\* hooks of one action have read the trail before the next action is taken;
\* the two hooks of a ban run in either order
ActBan(a) ==
    /\ nacts < MaxActions
    /\ pending = <<>>
    /\ nacts' = nacts + 1
    /\ trail' = [trail EXCEPT !["ban"] = a]
    /\ pending' = pending \o <<Event("ban", a, "ban"), Event("remove", a, "ban")>>
    /\ out' = NoOut
    /\ UNCHANGED <<lockVars, roles, bot_config, security_config, security_file, staff_actions, now,
                   inbox, sleepers, hist>>

ActKick(a) ==
    /\ nacts < MaxActions
    /\ pending = <<>>
    /\ nacts' = nacts + 1
    /\ trail' = [trail EXCEPT !["kick"] = a]
    /\ pending' = Append(pending, Event("remove", a, "kick"))
    /\ out' = NoOut
    /\ UNCHANGED <<lockVars, roles, bot_config, security_config, security_file, staff_actions, now,
                   inbox, sleepers, hist>>

ActChannelDelete(a) ==
    /\ nacts < MaxActions
    /\ pending = <<>>
    /\ nacts' = nacts + 1
    /\ trail' = [trail EXCEPT !["channel_delete"] = a]
    /\ pending' = Append(pending, Event("channel_delete", a, "channel_delete"))
    /\ out' = NoOut
    /\ UNCHANGED <<lockVars, roles, bot_config, security_config, security_file, staff_actions, now,
                   inbox, sleepers, hist>>

\* a ban by actor a while the events of earlier bans still wait for their
\* hooks' audit reads: the hooks are separate tasks and each awaits
\* guild.audit_logs, so the gateway can append the next entry first
BanBeforeRead(a) ==
    /\ nacts < MaxActions
    /\ pending # <<>>
    /\ nacts' = nacts + 1
    /\ trail' = [trail EXCEPT !["ban"] = a]
    /\ pending' = pending \o <<Event("ban", a, "ban"), Event("remove", a, "ban")>>
    /\ out' = NoOut
    /\ UNCHANGED <<lockVars, roles, bot_config, security_config, security_file, staff_actions, now,
                   inbox, sleepers, hist>>

\* a member leaves on their own: no audit entry, a member-remove event
MemberLeave ==
    /\ nacts < MaxActions
    /\ pending = <<>>
    /\ nacts' = nacts + 1
    /\ pending' = Append(pending, Event("remove", NoUser, "leave"))
    /\ out' = NoOut
    /\ UNCHANGED <<lockVars, roles, bot_config, security_config, security_file, staff_actions, now,
                   trail, inbox, sleepers, hist>>

\* member m leaves on their own: it is no longer in guild.members and holds
\* no role; no audit entry, a member-remove event
Leave(m) ==
    /\ nacts < MaxActions
    /\ pending = <<>>
    /\ inbox = NoMsg
    /\ roles[m] # {}
    /\ nacts' = nacts + 1
    /\ roles' = [roles EXCEPT ![m] = {}]
    /\ pending' = Append(pending, Event("remove", NoUser, "leave"))
    /\ out' = NoOut
    /\ UNCHANGED <<lockVars, bot_config, security_config, security_file, staff_actions, now,
                   trail, inbox, sleepers, hist>>

\* the default role too
RolesToRemove_All(member_roles) == member_roles

\* line 755: [r for r in member.roles if r != guild.default_role]
RolesToRemove(member_roles) == member_roles \ {Everyone}

\* lines 770-801 with 700-768: one hook, from its audit-trail read to its end.
\* fetched: the audit read returned (otherwise it raised, and the hook's bare
\* except swallowed it); removed: the roles remove_roles took away before it
\* returned or raised
HandleEvent(i, fetched) ==
    /\ i \in 1..Len(pending)
    /\ pending[i].hook \in AntiNukeHooks
    /\ LET ev      == pending[i]
           k       == HookKind(ev.hook)
           user    == IF fetched THEN trail[k] ELSE NoUser
           called  == user # NoUser /\ ~SelfCaused(user)
           skip    == ~called \/ NukeSkips(user)
           sa      == IF skip THEN staff_actions ELSE Track(staff_actions, user, k, now)
           reached == ~skip /\ Suspicious(k) /\ ThresholdReached(sa[Str(user)][k].count)
           roles_to_remove == IF reached THEN RolesToRemove(roles[user]) ELSE {}
           strip   == reached /\ roles_to_remove # {}
       IN  /\ pending' = RemoveAt(pending, i)
           /\ staff_actions' = sa
           /\ \E removed \in SUBSET roles_to_remove :
                 roles' = IF strip THEN [roles EXCEPT ![user] = @ \ removed] ELSE roles
           /\ out' = [handler   |-> ev.hook,
                      subject   |-> IF called THEN user ELSE NoUser,
                      seen      |-> IF called THEN user :> roles[user] ELSE NoSeen,
                      kind      |-> k,
                      cause     |-> ev.cause,
                      input     |-> NoInput,
                      calls     |-> IF strip
                                    THEN <<Call("remove_roles", user, roles_to_remove, 0)>>
                                    ELSE <<>>,
                      failed    |-> IF strip /\ roles' # [roles EXCEPT ![user] = {Everyone}]
                                    THEN {1} ELSE {},
                      log       |-> IF ~reached THEN <<>>
                                    ELSE IF roles' # [roles EXCEPT ![user] = {Everyone}]
                                    THEN <<"Failed to handle anti-nuke">>
                                    ELSE <<"Anti-nuke triggered">>]
           /\ hist' = IF called /\ Qualifies(user)
                      THEN [hist EXCEPT ![<<user, k>>] =
                              LastN(Append(@, [t |-> now, strip |-> strip]), nuke_threshold)]
                      ELSE hist
    /\ UNCHANGED <<lockVars, bot_config, security_config, security_file, now, trail, nacts, inbox,
                   sleepers>>

TickSteps == {20, 60}

\* time passes between actions
Tick(d) ==
    /\ nacts < MaxActions
    /\ pending = <<>>
    /\ now + d <= 20 * MaxTicks
    /\ now' = now + d
    /\ UNCHANGED <<lockVars, roles, bot_config, security_config, security_file, staff_actions, trail,
                   pending, nacts, inbox, sleepers, hist, out>>

\* an administrator grants or revokes a role by hand
GrantRole(u, r) ==
    /\ nacts < MaxActions
    /\ r \notin roles[u]
    /\ nacts' = nacts + 1
    /\ roles' = [roles EXCEPT ![u] = @ \cup {r}]
    /\ UNCHANGED <<lockVars, bot_config, security_config, security_file, staff_actions, now, trail,
                   pending, inbox, sleepers, hist, out>>

RevokeRole(u, r) ==
    /\ nacts < MaxActions
    /\ r \in roles[u]
    /\ nacts' = nacts + 1
    /\ roles' = [roles EXCEPT ![u] = @ \ {r}]
    /\ UNCHANGED <<lockVars, bot_config, security_config, security_file, staff_actions, now, trail,
                   pending, inbox, sleepers, hist, out>>

----------------------------------------------------------------------------
(* Spam classifier *)

\* words in one message
MaxWords == 3

\* lines 36-42
scam_domains ==
    {"discord-nitro.com", "discordgift.com", "discord-app.com",
     "steamcommunlty.com", "steamcornmunity.com"}

\* message.content is a sequence of words separated by white space; a word is
\* a sequence of pieces of text: a clean link, a link to a blocklisted domain
\* after some text, and plain text that names a blocklisted domain
Words ==
    { <<"http://", "example.com", "/a">>,
      <<"see:", "https://", "discord-nitro.com", "/gift">>,
      <<"discordgift.com">> }

Schemes == {"http://", "https://"}

\* line 649: the match of the pattern in one word: from the first scheme to
\* the end of the word, if at least one character follows the scheme
Match(word) ==
    LET starts == {i \in 1..Len(word) : word[i] \in Schemes /\ i < Len(word)}
    IN  IF starts = {} THEN <<>>
        ELSE LET i == CHOOSE x \in starts : \A y \in starts : x <= y
             IN  <<SubSeq(word, i, Len(word))>>

RECURSIVE FindAll(_)
\* line 649: re.findall over the content
FindAll(content) ==
    IF content = <<>> THEN <<>>
    ELSE Match(Head(content)) \o FindAll(Tail(content))

\* domain in link
Contains(link, domain) == \E i \in 1..Len(link) : link[i] = domain

\* the substring test turned into equality
ScamFound_Exact(links) ==
    \E i \in 1..Len(links) : \E domain \in scam_domains : links[i] = <<domain>>

\* line 653
ScamFound(links) ==
    \E i \in 1..Len(links) : \E domain \in scam_domains : Contains(links[i], domain)

\* the comparison off by one
LinkSpam_Above(n, threshold) == n > threshold

\* line 673
LinkSpam(n, threshold) == n >= threshold

\* the lists message.mentions can be
MentionLists == {<<>>, <<2>>, <<2, 2>>, <<2, 1>>, <<1, 2, 1>>}

\* set(message.mentions)
SetOf(seq) == {seq[i] : i \in 1..Len(seq)}

\* every mention counted, repeated or not
MentionCount_Raw(mentions) == Len(mentions)

\* lines 686 and 689: len(mentions) of mentions = set(message.mentions)
MentionCount(mentions) == Cardinality(SetOf(mentions))

Message(author, guild, content, mentions) ==
    [author |-> author, guild |-> guild, content |-> content, mentions |-> mentions]

\* the calls of one try block, in order
ScamCalls(a) ==
    <<Call("delete", a, {}, 0), Call("send", a, {}, 0), Call("timeout", a, {}, 10)>>
VolumeCalls(a) == <<Call("delete", a, {}, 0), Call("timeout", a, {}, 5)>>
MentionCalls(a) == <<Call("delete", a, {}, 0), Call("timeout", a, {}, 10)>>

\* a try block whose f-th call raises (f = 0: none does): the calls issued
Issued(calls, f) == IF f = 0 \/ f > Len(calls) THEN calls ELSE SubSeq(calls, 1, f)
Raised(calls, f) == f # 0 /\ f <= Len(calls)

\* the except clause never entered
Logged_Uncaught(calls, f, info, error) == IF Raised(calls, f) THEN <<>> ELSE <<info>>

\* the logger line that ends a try block: logger.info at the end of the try,
\* logger.error in its except
Logged(calls, f, info, error) == IF Raised(calls, f) THEN <<error>> ELSE <<info>>

\* a member writes a message, word by word, mention by mention
StartMessage(author, guild) ==
    /\ inbox = NoMsg
    /\ pending = <<>>
    /\ roles[author] # {}
    /\ inbox' = [sent |-> FALSE, msg |-> Message(author, guild, <<>>, <<>>)]
    /\ out' = NoOut
    /\ UNCHANGED <<lockVars, roles, bot_config, security_config, security_file, staff_actions, now,
                   trail, pending, nacts, sleepers, hist>>

AddWord(word) ==
    /\ inbox # NoMsg
    /\ ~inbox.sent
    /\ inbox.msg.mentions = <<>>
    /\ Len(inbox.msg.content) < MaxWords
    /\ inbox' = [inbox EXCEPT !.msg.content = Append(@, word)]
    /\ UNCHANGED <<lockVars, roles, bot_config, security_config, security_file, staff_actions, now,
                   trail, pending, nacts, sleepers, hist, out>>

AddMentions(mentions) ==
    /\ inbox # NoMsg
    /\ ~inbox.sent
    /\ inbox.msg.mentions = <<>>
    /\ mentions # <<>>
    /\ inbox' = [inbox EXCEPT !.msg.mentions = mentions]
    /\ UNCHANGED <<lockVars, roles, bot_config, security_config, security_file, staff_actions, now,
                   trail, pending, nacts, sleepers, hist, out>>

\* a member sends a whole message
Post(message) ==
    /\ inbox = NoMsg
    /\ pending = <<>>
    /\ roles[message.author] # {}
    /\ nacts < MaxActions
    /\ nacts' = nacts + 1
    /\ inbox' = [sent |-> TRUE, msg |-> message]
    /\ out' = NoOut
    /\ UNCHANGED <<lockVars, roles, bot_config, security_config, security_file, staff_actions, now,
                   trail, pending, sleepers, hist>>

SendMessage ==
    /\ inbox # NoMsg
    /\ ~inbox.sent
    /\ inbox' = [inbox EXCEPT !.sent = TRUE]
    /\ UNCHANGED <<lockVars, roles, bot_config, security_config, security_file, staff_actions, now,
                   trail, pending, nacts, sleepers, hist, out>>

\* lines 634-698: on_message, from the event to the handler's end.  sf, vf,
\* mf: which call of the scam, volume and mention try block raises (0: none)
OnMessage(sf, vf, mf) ==
    /\ inbox # NoMsg
    /\ inbox.sent
    /\ LET message  == inbox.msg
           a        == message.author
           skip     == IsBot(a) \/ ~message.guild \/ IsImmune(a)
           links    == IF security_config.link_filter_enabled
                       THEN FindAll(message.content) ELSE <<>>
           scam     == ~skip /\ links # <<>> /\ ScamFound(links)
           returned == scam /\ ~Raised(ScamCalls(a), sf)
           volume   == /\ ~skip /\ links # <<>> /\ ~returned
                       /\ LinkSpam(Len(links), security_config.link_spam_threshold)
           mention  == /\ ~skip /\ ~returned
                       /\ security_config.mention_filter_enabled
                       /\ MentionCount(message.mentions)
                             >= security_config.mention_spam_threshold
           c1       == IF scam THEN Issued(ScamCalls(a), sf) ELSE <<>>
           c2       == IF volume THEN Issued(VolumeCalls(a), vf) ELSE <<>>
           c3       == IF mention THEN Issued(MentionCalls(a), mf) ELSE <<>>
           f1       == IF scam /\ Raised(ScamCalls(a), sf) THEN {Len(c1)} ELSE {}
           f2       == IF volume /\ Raised(VolumeCalls(a), vf)
                       THEN {Len(c1) + Len(c2)} ELSE {}
           f3       == IF mention /\ Raised(MentionCalls(a), mf)
                       THEN {Len(c1) + Len(c2) + Len(c3)} ELSE {}
           l1       == IF scam
                       THEN Logged(ScamCalls(a), sf, "Deleted scam link",
                                   "Failed to handle scam link")
                       ELSE <<>>
           l2       == IF volume
                       THEN Logged(VolumeCalls(a), vf, "Deleted link spam",
                                   "Failed to handle link spam")
                       ELSE <<>>
           l3       == IF mention
                       THEN Logged(MentionCalls(a), mf, "Deleted mention spam",
                                   "Failed to handle mention spam")
                       ELSE <<>>
       IN  \* a call can only raise in a block that runs
           /\ scam \/ sf = 0
           /\ volume \/ vf = 0
           /\ mention \/ mf = 0
           /\ out' = [handler |-> "message",
                      subject |-> a,
                      seen    |-> a :> roles[a],
                      kind    |-> "none",
                      cause   |-> NoUser,
                      input   |-> message,
                      calls   |-> c1 \o c2 \o c3,
                      failed  |-> f1 \cup f2 \cup f3,
                      log     |-> l1 \o l2 \o l3]
    /\ inbox' = NoMsg
    /\ UNCHANGED <<lockVars, roles, bot_config, security_config, security_file, staff_actions, now,
                   trail, pending, nacts, sleepers, hist>>

----------------------------------------------------------------------------
(* Join gatekeeper *)

\* (datetime.utcnow() - member.created_at).days of a joining account
Ages == {6, 7}

\* an account joins the guild; roles: the roles it holds when the handler
\* reads them
MemberJoin(m, rs) ==
    /\ roles[m] = {}
    /\ pending = <<>>
    /\ inbox = NoMsg
    /\ Everyone \in rs
    /\ nacts < MaxActions
    /\ nacts' = nacts + 1
    /\ roles' = [roles EXCEPT ![m] = rs]
    /\ pending' = <<Event("join", m, "join")>>
    /\ out' = NoOut
    /\ UNCHANGED <<lockVars, bot_config, security_config, security_file, staff_actions, now, trail,
                   inbox, sleepers, hist>>

\* line 621: member.kick with the reason that cites the age and the minimum
KickCall(member, account_age, min_age) ==
    [Call("kick", member, {}, 0) EXCEPT !.reason = <<account_age, min_age>>]

\* lines 587-632: on_member_join, from the event to the handler's end.
\* account_age: the age of the account in days; qf, kf: add_roles, kick raises.
\* aware: member.created_at carries a time zone, as it does under the
\* discord.py 2 that app_commands (line 7) needs; line 615 subtracts it from
\* the naive datetime.utcnow(), which raises TypeError outside any try block,
\* and the handler ends there.
\* A kick that succeeds removes the member: the gateway writes the audit
\* entry (actor: the bot) and dispatches the member-remove event
OnMemberJoin(i, account_age, aware, qf, kf) ==
    /\ i \in 1..Len(pending)
    /\ pending[i].hook = "join"
    /\ LET member          == pending[i].cause
           skip            == IsBot(member) \/ IsImmune(member)
           quarantine_role == GetRole(security_config.quarantine_role_id)
           quarantine      == /\ ~skip
                              /\ security_config.auto_quarantine_enabled
                              /\ security_config.quarantine_role_id # NoRole
                              /\ quarantine_role # NoRole
           min_age         == security_config.min_account_age_days
           age_check       == ~skip /\ security_config.auto_age_check_enabled
           type_error      == age_check /\ aware
           kick            == age_check /\ ~aware /\ account_age < min_age
           c1              == IF quarantine
                              THEN <<Call("add_roles", member, {quarantine_role}, 0)>>
                              ELSE <<>>
           c2              == IF kick THEN <<KickCall(member, account_age, min_age)>>
                              ELSE <<>>
           l0              == IF ~IsBot(member) /\ IsImmune(member)
                              THEN <<"Skipping security checks for immune member">>
                              ELSE <<>>
           l1              == IF quarantine
                              THEN <<IF qf THEN "Failed to quarantine"
                                     ELSE "Auto-quarantined">>
                              ELSE <<>>
           l2              == IF kick
                              THEN <<IF kf THEN "Failed to kick" ELSE "Auto-kicked">>
                              ELSE <<>>
           r1              == IF quarantine /\ ~qf
                              THEN roles[member] \cup {quarantine_role}
                              ELSE roles[member]
           kicked          == kick /\ ~kf
       IN  \* a call can only raise when it is made
           /\ quarantine \/ ~qf
           /\ kick \/ ~kf
           /\ roles' = [roles EXCEPT ![member] = IF kicked THEN {} ELSE r1]
           /\ trail' = IF kicked THEN [trail EXCEPT !["kick"] = BotSelf] ELSE trail
           /\ pending' = RemoveAt(pending, i)
                            \o (IF kicked THEN <<Event("remove", BotSelf, "kick")>>
                                ELSE <<>>)
           /\ out' = [handler |-> "join",
                      subject |-> member,
                      seen    |-> member :> roles[member],
                      kind    |-> IF type_error THEN "TypeError" ELSE "none",
                      cause   |-> NoUser,
                      input   |-> <<account_age>>,
                      calls   |-> c1 \o c2,
                      failed  |-> (IF quarantine /\ qf THEN {1} ELSE {})
                                  \cup (IF kick /\ kf THEN {Len(c1) + 1} ELSE {}),
                      log     |-> l0 \o l1 \o l2]
    /\ UNCHANGED <<lockVars, bot_config, security_config, security_file, staff_actions, now, nacts,
                   inbox, sleepers, hist>>

----------------------------------------------------------------------------
(* Mass mute *)

\* interaction.guild.members, in order
GuildMembers == SortedSeq({m \in Members : roles[m] # {}})

RECURSIVE MuteSweep(_, _, _)
\* the sweep without the skip of line 354: members who hold the mute role
\* already get the call again
MuteSweep_MutedAgain(members, staff_role, mute_role) ==
    SelectSeq(members,
              LAMBDA member : ~(\/ IsBot(member)
                                \/ IsImmune(member)
                                \/ (staff_role # NoRole /\ staff_role \in roles[member])))

\* lines 341-362: the members the sweep calls add_roles for, in order
MuteSweep(members, staff_role, mute_role) ==
    IF members = <<>> THEN <<>>
    ELSE LET member == Head(members)
             rest   == MuteSweep(Tail(members), staff_role, mute_role)
         IN  IF \/ IsBot(member)
                \/ IsImmune(member)
                \/ (staff_role # NoRole /\ staff_role \in roles[member])
                \/ mute_role \in roles[member]
             THEN rest
             ELSE <<member>> \o rest

RECURSIVE UnmuteSweep(_, _, _)
\* lines 378-388: the members the sweep calls remove_roles for, in order
UnmuteSweep(members, staff_role, mute_role) ==
    IF members = <<>> THEN <<>>
    ELSE LET member == Head(members)
             rest   == UnmuteSweep(Tail(members), staff_role, mute_role)
         IN  IF \/ IsImmune(member)
                \/ (staff_role # NoRole /\ staff_role \in roles[member])
                \/ mute_role \notin roles[member]
             THEN rest
             ELSE <<member>> \o rest

\* the calls of a sweep and the positions of those for the members in fails
SweepCalls(op, targets, role) ==
    [i \in 1..Len(targets) |-> Call(op, targets[i], {role}, 0)]
SweepFailed(targets, fails) == {i \in 1..Len(targets) : targets[i] \in fails}

\* lines 309-373: /silence up to its reply (and to asyncio.sleep when
\* duration > 0).  fails: the members whose add_roles raises
Silence(invoker, duration, fails) ==
    /\ nacts < MaxActions
    /\ pending = <<>>
    /\ inbox = NoMsg
    /\ nacts' = nacts + 1
    /\ LET staff_role_id == bot_config.staff
           staff_role    == IF staff_role_id # NoRole THEN GetRole(staff_role_id)
                            ELSE NoRole
           mute_role_id  == security_config.mute_role_id
           mute_role     == GetRole(mute_role_id)
           configured    == mute_role_id # NoRole /\ mute_role # NoRole
           targets       == IF configured
                            THEN MuteSweep(GuildMembers, staff_role, mute_role)
                            ELSE <<>>
           muted         == {targets[i] : i \in 1..Len(targets)} \ fails
       IN  /\ roles' = [m \in Members |->
                          IF m \in muted THEN roles[m] \cup {mute_role} ELSE roles[m]]
           /\ sleepers' = IF configured /\ duration > 0 THEN sleepers + 1 ELSE sleepers
           /\ out' = [handler |-> "silence",
                      subject |-> invoker,
                      seen    |-> roles,
                      kind    |-> IF mute_role_id = NoRole THEN "NotConfigured"
                                  ELSE IF mute_role = NoRole THEN "NotFound"
                                  ELSE "Silenced",
                      cause   |-> NoUser,
                      input   |-> <<duration>>,
                      calls   |-> SweepCalls("add_roles", targets, mute_role),
                      failed  |-> SweepFailed(targets, fails),
                      log     |-> [n \in 1..Cardinality(SweepFailed(targets, fails))
                                     |-> "Failed to mute"]]
    /\ UNCHANGED <<lockVars, bot_config, security_config, security_file, staff_actions, now, trail,
                   pending, inbox, hist>>

\* lines 376-388: a silence handler wakes up and sweeps.  fails: the members
\* whose remove_roles raises.  staff_role and mute_role are the handler's
\* locals: the configuration they were read from does not change meanwhile
Unmute(fails) ==
    /\ sleepers > 0
    /\ pending = <<>>
    /\ inbox = NoMsg
    /\ sleepers' = sleepers - 1
    /\ LET staff_role_id == bot_config.staff
           staff_role    == IF staff_role_id # NoRole THEN GetRole(staff_role_id)
                            ELSE NoRole
           mute_role     == GetRole(security_config.mute_role_id)
           targets       == UnmuteSweep(GuildMembers, staff_role, mute_role)
           unmuted       == {targets[i] : i \in 1..Len(targets)} \ fails
       IN  /\ roles' = [m \in Members |->
                          IF m \in unmuted THEN roles[m] \ {mute_role} ELSE roles[m]]
           /\ out' = [handler |-> "unmute",
                      subject |-> NoUser,
                      seen    |-> roles,
                      kind    |-> "none",
                      cause   |-> NoUser,
                      input   |-> NoInput,
                      calls   |-> SweepCalls("remove_roles", targets, mute_role),
                      failed  |-> SweepFailed(targets, fails),
                      log     |-> <<>>]
    /\ UNCHANGED <<lockVars, bot_config, security_config, security_file, staff_actions, now, trail,
                   pending, nacts, inbox, hist>>

----------------------------------------------------------------------------
(* Initial values *)

LockParked ==
    /\ channels = InitialChans
    /\ deleted = {}
    /\ overwrites = [c \in ChanIds |-> EmptyOverwrite]
    /\ lockdown_state = EmptyDict
    /\ lockdown_file = EmptyDict
    /\ cmd = [s \in Slots |-> IdleCmd]
    /\ ncmds = 0
    /\ nenv = 0
    /\ rt = [phase |-> "none", pre |-> overwrites, clean |-> FALSE, restarted |-> FALSE]

GuardCommonInit ==
    /\ staff_actions = EmptyDict
    /\ now = 0
    /\ trail = [ban |-> NoUser, kick |-> NoUser, channel_delete |-> NoUser]
    /\ pending = <<>>
    /\ nacts = 0
    /\ inbox = NoMsg
    /\ sleepers = 0
    /\ hist = [key \in Humans \X Kinds |-> <<>>]
    /\ out = NoOut

GuardParked ==
    /\ roles = [u \in Members |-> {Everyone}]
    /\ bot_config = [staff |-> StaffRole, immune |-> ImmuneRole]
    /\ security_config = DefaultConfig
    /\ security_file = Saved(security_config)
    /\ GuardCommonInit

----------------------------------------------------------------------------
(* LockSpec *)

LockInit ==
    /\ channels = InitialChans
    /\ deleted = {}
    /\ \E k \in 0..2 :
          overwrites = [c \in ChanIds |-> IF c \in InitialChans THEN Profile((c + k) % 3)
                                                               ELSE EmptyOverwrite]
    /\ lockdown_state = EmptyDict
    /\ lockdown_file = EmptyDict
    /\ cmd = [s \in Slots |-> IdleCmd]
    /\ ncmds = 0
    /\ nenv = 0
    /\ rt = [phase |-> "none", pre |-> overwrites, clean |-> FALSE, restarted |-> FALSE]
    /\ GuardParked

LockStep ==
    \/ \E s \in Slots : LockdownStart(s)
    \/ \E s \in Slots : LockdownResume(s)
    \/ \E s \in Slots, done \in BOOLEAN : LockdownEdit(s, done)
    \/ \E s \in Slots : UnlockStart(s)
    \/ \E s \in Slots : UnlockResume(s)
    \/ \E s \in Slots, done \in BOOLEAN : UnlockEdit(s, done)
    \/ \E c \in ChanIds : ChannelCreate(c)
    \/ \E c \in ChanIds : ChannelDelete(c)

LockNext == LockStep /\ UNCHANGED guardVars

LockSpec == LockInit /\ [][LockNext]_vars

----------------------------------------------------------------------------
(* NukeSpec *)

\* a burst under way when the behaviour starts: member 1 has had n bans
\* tracked at second 0 (n below the threshold), or none
PreBurst == {0, 3}

BurstEntry(n) == [count |-> n, last_action |-> IsoFormat(0)]

\* the starting points: the default configuration with member 1 staff, staff
\* and immune, or neither
NukeInit ==
    /\ LockParked
    /\ now = 0
    /\ trail = [ban |-> NoUser, kick |-> NoUser, channel_delete |-> NoUser]
    /\ pending = <<>>
    /\ nacts = 0
    /\ inbox = NoMsg
    /\ sleepers = 0
    /\ out = NoOut
    /\ \E r1 \in {{Everyone, StaffRole}, {Everyone, StaffRole, ImmuneRole}, {Everyone}} :
          roles = [u \in Members |-> IF u = 1 THEN r1
                                     ELSE IF u = BotSelf THEN {Everyone}
                                     ELSE {Everyone, StaffRole}]
    /\ bot_config = [staff |-> StaffRole, immune |-> ImmuneRole]
    /\ security_config = DefaultConfig
    /\ security_file = Saved(security_config)
    /\ \E n \in PreBurst :
          /\ n > 0 => Qualifies(1)
          /\ staff_actions = IF n = 0 THEN EmptyDict
                             ELSE Put(EmptyDict, Str(1), Put(EmptyDict, "ban", BurstEntry(n)))
          /\ hist = [key \in Humans \X Kinds |->
                       IF key = <<1, "ban">>
                       THEN [i \in 1..n |-> [t |-> 0, strip |-> FALSE]]
                       ELSE <<>>]

\* member 1 bans and kicks, member 2 deletes channels; administrators edit
\* member 1's staff and immune roles
NukeNext ==
    \/ ActBan(1)
    \/ ActKick(1)
    \/ ActChannelDelete(2)
    \/ MemberLeave
    \/ \E i \in 1..2, fetched \in BOOLEAN : HandleEvent(i, fetched)
    \/ \E d \in TickSteps : Tick(d)
    \/ \E r \in {StaffRole, ImmuneRole} : GrantRole(1, r)
    \/ \E r \in {StaffRole, ImmuneRole} : RevokeRole(1, r)

NukeSpec == NukeInit /\ [][NukeNext]_vars

----------------------------------------------------------------------------
(* MsgSpec *)

\* the defaults with both role ids set and a mention threshold that the
\* mention lists can reach
BaseConfig ==
    [DefaultConfig EXCEPT !.quarantine_role_id = QuarantineRole,
                          !.mute_role_id = MuteRole,
                          !.mention_spam_threshold = 2]

LinkThresholds == 1..MaxWords

MsgConfigs ==
    {[BaseConfig EXCEPT !.link_spam_threshold = n] : n \in LinkThresholds}
    \cup {[BaseConfig EXCEPT !.link_filter_enabled = FALSE],
          [BaseConfig EXCEPT !.mention_filter_enabled = FALSE]}

\* member 1 is staff; member 2 is a regular member, immune or not
MsgInit ==
    /\ LockParked
    /\ GuardCommonInit
    /\ bot_config = [staff |-> StaffRole, immune |-> ImmuneRole]
    /\ security_config \in MsgConfigs
    /\ security_file = Saved(security_config)
    /\ \E r2 \in {{Everyone}, {Everyone, ImmuneRole}} :
          roles = [u \in Members |-> IF u = 1 THEN {Everyone, StaffRole}
                                     ELSE IF u = 2 THEN r2 ELSE {Everyone}]

MsgNext ==
    \/ \E author \in {1, 2, OtherBot} : StartMessage(author, TRUE)
    \/ StartMessage(2, FALSE)
    \/ \E word \in Words : AddWord(word)
    \/ \E mentions \in MentionLists : AddMentions(mentions)
    \/ SendMessage
    \/ \E sf \in 0..3, vf \in 0..2, mf \in 0..2 : OnMessage(sf, vf, mf)

MsgSpec == MsgInit /\ [][MsgNext]_vars

----------------------------------------------------------------------------
(* GuardSpec: every handler that takes a protective action *)

\* messages that exceed a threshold of BaseConfig: a blocklisted URL, as many
\* links as link_spam_threshold, as many distinct mentions as
\* mention_spam_threshold
SpamSamples(author) ==
    { Message(author, TRUE, <<<<"see:", "https://", "discord-nitro.com", "/gift">>>>, <<>>),
      Message(author, TRUE, [i \in 1..BaseConfig.link_spam_threshold |->
                                <<"http://", "example.com", "/a">>], <<>>),
      Message(author, TRUE, <<>>, <<2, 1>>) }

\* member 1 is staff and one ban short of the anti-nuke threshold; members 1
\* and 2 hold the immune role or not; the newcomer is not in the guild
GuardInit ==
    /\ LockParked
    /\ now = 0
    /\ trail = [ban |-> NoUser, kick |-> NoUser, channel_delete |-> NoUser]
    /\ pending = <<>>
    /\ nacts = 0
    /\ inbox = NoMsg
    /\ sleepers = 0
    /\ out = NoOut
    /\ bot_config = [staff |-> StaffRole, immune |-> ImmuneRole]
    /\ security_config = BaseConfig
    /\ security_file = Saved(security_config)
    /\ \E i1, i2 \in SUBSET {ImmuneRole} :
          roles = [u \in Members |->
                     IF u = 1 THEN {Everyone, StaffRole, MuteRole} \cup i1
                     ELSE IF u = 2 THEN {Everyone} \cup i2
                     ELSE IF u = Newcomer THEN {}
                     ELSE {Everyone}]
    /\ staff_actions = Put(EmptyDict, Str(1),
                           Put(EmptyDict, "ban", BurstEntry(nuke_threshold - 1)))
    /\ hist = [key \in Humans \X Kinds |->
                 IF key = <<1, "ban">>
                 THEN [i \in 1..(nuke_threshold - 1) |-> [t |-> 0, strip |-> FALSE]]
                 ELSE <<>>]

GuardStep ==
    \/ \E a \in {1, BotSelf} : ActBan(a)
    \/ \E i \in 1..2, fetched \in BOOLEAN : HandleEvent(i, fetched)
    \/ \E u \in {1, 2} : GrantRole(u, ImmuneRole)
    \/ \E u \in {1, 2} : RevokeRole(u, ImmuneRole)
    \/ \E author \in {1, 2} : \E message \in SpamSamples(author) : Post(message)
    \/ \E sf \in 0..3, vf \in 0..2, mf \in 0..2 : OnMessage(sf, vf, mf)
    \/ \E rs \in {{Everyone}, {Everyone, ImmuneRole}} : MemberJoin(Newcomer, rs)
    \/ \E i \in 1..2, account_age \in Ages, aware \in BOOLEAN,
             qf \in BOOLEAN, kf \in BOOLEAN :
          OnMemberJoin(i, account_age, aware, qf, kf)
    \/ \E duration \in {0, 30}, fails \in SUBSET {2} :
          Silence(Invoker(1), duration, fails)
    \/ \E fails \in SUBSET {2} : Unmute(fails)

GuardNext == GuardStep /\ nacts' <= MaxEvents

GuardSpec == GuardInit /\ [][GuardNext]_vars

----------------------------------------------------------------------------
(* MuteSpec: /silence and its deferred unmute, while roles are granted and
   revoked and a member leaves *)

\* the mute role configured and there, not configured, or configured and gone
MuteConfigs ==
    {BaseConfig,
     [BaseConfig EXCEPT !.mute_role_id = NoRole],
     [BaseConfig EXCEPT !.mute_role_id = GoneRole]}

\* members 1, 2 and the newcomer are regular members (member 1 staff or
\* not, member 2 already muted or not)
MuteInit ==
    /\ LockParked
    /\ GuardCommonInit
    /\ bot_config = [staff |-> StaffRole, immune |-> ImmuneRole]
    /\ security_config \in MuteConfigs
    /\ security_file = Saved(security_config)
    /\ \E r1 \in SUBSET {StaffRole}, r2 \in SUBSET {MuteRole} :
          roles = [u \in Members |->
                     IF u = 1 THEN {Everyone} \cup r1
                     ELSE IF u = 2 THEN {Everyone} \cup r2
                     ELSE {Everyone}]

MuteNext ==
    \/ \E duration \in {0, 30}, fails \in SUBSET {2, Newcomer} :
          Silence(Invoker(1), duration, fails)
    \/ \E fails \in SUBSET {2, Newcomer} : Unmute(fails)
    \/ \E r \in {StaffRole, ImmuneRole} : GrantRole(1, r)
    \/ \E r \in {StaffRole, ImmuneRole} : RevokeRole(1, r)
    \/ Leave(Newcomer)
    \/ \E fetched \in BOOLEAN : HandleEvent(1, fetched)

MuteSpec == MuteInit /\ [][MuteNext]_vars

----------------------------------------------------------------------------
(* Process start and the configuration command *)

\* lines 58-66: _load_lockdown_state over lockdown_state.json
LoadLockdownState(file) == file

\* the anti-nuke map kept across the restart
FreshStaffActions_Kept(sa) == sa

\* line 31: the anti-nuke map of a new Security object
FreshStaffActions(sa) == EmptyDict

\* lines 23-42: the process stops and starts again and the cog is constructed
\* anew, finding `found` as security_config.json.  Every coroutine of the old
\* process is gone: running handlers, sleeping unmutes, undelivered events.
Restart(found) ==
    /\ lockdown_state' = LoadLockdownState(lockdown_file)
    /\ security_config' = LoadSecurityConfig(found)
    /\ security_file' = FileAfterLoad(found)
    /\ staff_actions' = FreshStaffActions(staff_actions)
    /\ cmd' = [s \in Slots |-> IdleCmd]
    /\ rt' = [rt EXCEPT !.clean = @ /\ ~\E s \in Slots : InFlight(s),
                        !.restarted = @ \/ rt.phase = "locked"]
    /\ pending' = <<>>
    /\ inbox' = NoMsg
    /\ sleepers' = 0
    /\ hist' = [key \in Humans \X Kinds |-> <<>>]
    /\ out' = [NoOut EXCEPT !.handler = "restart", !.input = <<found.state>>]
    /\ UNCHANGED <<channels, deleted, overwrites, lockdown_file, ncmds, nenv,
                   roles, bot_config, now, trail, nacts>>

\* lines 450-472: the set_min_age command
SetMinAge(days) ==
    /\ IF days < 0 \/ days > 365
       THEN /\ out' = [NoOut EXCEPT !.handler = "set_min_age", !.kind = "rejected",
                                    !.input = <<days>>]
            /\ UNCHANGED <<security_config, security_file>>
       ELSE LET config == [security_config EXCEPT !.min_account_age_days = days]
            IN  /\ security_config' = config
                /\ security_file' = Saved(config)
                /\ out' = [NoOut EXCEPT !.handler = "set_min_age", !.kind = "updated",
                                        !.input = <<days>>]
    /\ UNCHANGED <<lockVars, roles, bot_config, staff_actions, now, trail, pending,
                   nacts, inbox, sleepers, hist>>

----------------------------------------------------------------------------
(* ConfSpec *)

\* a document lacks at most this many recognized keys, or holds at most this
\* many
MaxMissing == 2

\* a configuration in which every value differs from its default
FileConfig ==
    [min_account_age_days    |-> 30,
     quarantine_role_id      |-> QuarantineRole,
     mute_role_id            |-> MuteRole,
     welcome_channel_id      |-> "welcome",
     verification_channel_id |-> "verification",
     link_spam_threshold     |-> 2,
     mention_spam_threshold  |-> 2,
     auto_quarantine_enabled |-> FALSE,
     auto_age_check_enabled  |-> FALSE,
     link_filter_enabled     |-> FALSE,
     mention_filter_enabled  |-> FALSE,
     anti_nuke_enabled       |-> FALSE]

Restrict(d, K) == [key \in K |-> d[key]]

\* the key sets of the documents: nearly complete, or nearly empty
KeySets ==
    {K \in SUBSET ConfigKeys :
        \/ Cardinality(ConfigKeys \ K) <= MaxMissing
        \/ Cardinality(K) <= MaxMissing}

\* what a start can find as security_config.json
ConfFiles ==
    {AbsentFile, UnreadableFile} \cup {Document(Restrict(FileConfig, K)) : K \in KeySets}

DaysGiven == {-1, 0, 365, 366}

\* the first start of the bot: no file yet
ConfInit ==
    /\ LockParked
    /\ GuardCommonInit
    /\ roles = [u \in Members |-> {Everyone}]
    /\ bot_config = [staff |-> StaffRole, immune |-> ImmuneRole]
    /\ security_config = LoadSecurityConfig(AbsentFile)
    /\ security_file = FileAfterLoad(AbsentFile)

ConfNext ==
    \/ \E found \in ConfFiles : Restart(found)
    \/ \E days \in DaysGiven : SetMinAge(days)

ConfSpec == ConfInit /\ [][ConfNext]_vars

----------------------------------------------------------------------------
(* RestartSpec *)

\* member 1 is staff and has had threshold-1 bans tracked at second 0; the
\* channels carry overwrites
RestartInit ==
    /\ channels = InitialChans
    /\ deleted = {}
    /\ \E k \in 0..2 :
          overwrites = [c \in ChanIds |-> IF c \in InitialChans THEN Profile((c + k) % 3)
                                                               ELSE EmptyOverwrite]
    /\ lockdown_state = EmptyDict
    /\ lockdown_file = EmptyDict
    /\ cmd = [s \in Slots |-> IdleCmd]
    /\ ncmds = 0
    /\ nenv = 0
    /\ rt = [phase |-> "none", pre |-> overwrites, clean |-> FALSE, restarted |-> FALSE]
    /\ now = 0
    /\ trail = [ban |-> NoUser, kick |-> NoUser, channel_delete |-> NoUser]
    /\ pending = <<>>
    /\ nacts = 0
    /\ inbox = NoMsg
    /\ sleepers = 0
    /\ out = NoOut
    /\ roles = [u \in Members |-> IF u = 1 THEN {Everyone, StaffRole} ELSE {Everyone}]
    /\ bot_config = [staff |-> StaffRole, immune |-> ImmuneRole]
    /\ security_config = DefaultConfig
    /\ security_file = Saved(security_config)
    /\ staff_actions = Put(EmptyDict, Str(1),
                           Put(EmptyDict, "ban", BurstEntry(nuke_threshold - 1)))
    /\ hist = [key \in Humans \X Kinds |->
                 IF key = <<1, "ban">>
                 THEN [i \in 1..(nuke_threshold - 1) |-> [t |-> 0, strip |-> FALSE]]
                 ELSE <<>>]

\* no lockdown or unlock handler is running
Quiet == \A s \in Slots : ~InFlight(s)

\* lockdown and unlock commands one at a time, bans by member 1 between
\* them, and restarts (at any point, also in the middle of a handler) that
\* find the files the process left
RestartNext ==
    \/ /\ pending = <<>>
       /\ \/ \E s \in Slots : Quiet /\ LockdownStart(s)
          \/ \E s \in Slots : LockdownResume(s)
          \/ \E s \in Slots, done \in BOOLEAN : LockdownEdit(s, done)
          \/ \E s \in Slots : Quiet /\ UnlockStart(s)
          \/ \E s \in Slots : UnlockResume(s)
          \/ \E s \in Slots, done \in BOOLEAN : UnlockEdit(s, done)
       /\ UNCHANGED guardVars
    \/ Restart(security_file)
    \/ Quiet /\ ActBan(1)
    \/ \E i \in 1..2, fetched \in BOOLEAN : HandleEvent(i, fetched)

RestartSpec == RestartInit /\ [][RestartNext]_vars

----------------------------------------------------------------------------
(* SkipSpec *)

\* the configurations under which the detector runs or skips: anti-nuke on
\* or off; the staff role configured, not configured, or deleted from the
\* guild
SkipConfigs == {DefaultConfig, [DefaultConfig EXCEPT !.anti_nuke_enabled = FALSE]}
StaffRoleIds == {StaffRole, NoRole, GoneRole}

\* member 1 holds the staff role, as does a bot account; where the detector
\* runs, member 1 is one ban short of the threshold
SkipInit ==
    /\ LockParked
    /\ now = 0
    /\ trail = [ban |-> NoUser, kick |-> NoUser, channel_delete |-> NoUser]
    /\ pending = <<>>
    /\ nacts = 0
    /\ inbox = NoMsg
    /\ sleepers = 0
    /\ out = NoOut
    /\ roles = [u \in Members |-> IF u \in {1, OtherBot} THEN {Everyone, StaffRole}
                                  ELSE {Everyone}]
    /\ \E id \in StaffRoleIds : bot_config = [staff |-> id, immune |-> ImmuneRole]
    /\ security_config \in SkipConfigs
    /\ security_file = Saved(security_config)
    /\ LET n == IF Qualifies(1) THEN nuke_threshold - 1 ELSE 0
       IN  /\ staff_actions = IF n = 0 THEN EmptyDict
                              ELSE Put(EmptyDict, Str(1), Put(EmptyDict, "ban", BurstEntry(n)))
           /\ hist = [key \in Humans \X Kinds |->
                        IF key = <<1, "ban">>
                        THEN [i \in 1..n |-> [t |-> 0, strip |-> FALSE]]
                        ELSE <<>>]

\* bans by member 1, by member 2 (not staff) and by the bot account; role
\* edits on member 1
SkipNext ==
    \/ \E a \in {1, 2, OtherBot} : ActBan(a)
    \/ \E i \in 1..2, fetched \in BOOLEAN : HandleEvent(i, fetched)
    \/ \E r \in {StaffRole, ImmuneRole} : GrantRole(1, r)
    \/ \E r \in {StaffRole, ImmuneRole} : RevokeRole(1, r)

SkipSpec == SkipInit /\ [][SkipNext]_vars

----------------------------------------------------------------------------
(* AgeSpec *)

\* the default configuration, no quarantine role; the newcomer is not in the
\* guild yet
AgeInit ==
    /\ LockParked
    /\ GuardCommonInit
    /\ roles = [u \in Members |-> IF u = Newcomer THEN {} ELSE {Everyone}]
    /\ bot_config = [staff |-> StaffRole, immune |-> ImmuneRole]
    /\ security_config = DefaultConfig
    /\ security_file = Saved(security_config)

\* set_min_age commands between and during the joins of one account, which
\* leaves or is kicked and joins again
AgeNext ==
    \/ \E days \in DaysGiven : SetMinAge(days)
    \/ MemberJoin(Newcomer, {Everyone})
    \/ \E i \in 1..2, account_age \in Ages, aware \in BOOLEAN, kf \in BOOLEAN :
          OnMemberJoin(i, account_age, aware, FALSE, kf)
    \/ Leave(Newcomer)
    \/ \E fetched \in BOOLEAN : HandleEvent(1, fetched)

AgeSpec == AgeInit /\ [][AgeNext]_vars

----------------------------------------------------------------------------
(* SweepSpec *)

\* channels that carry overwrites; member 1 is staff, member 2 holds the mute
\* role already, the newcomer is a regular member
SweepInit ==
    /\ channels = InitialChans
    /\ deleted = {}
    /\ \E k \in 0..2 :
          overwrites = [c \in ChanIds |-> IF c \in InitialChans THEN Profile((c + k) % 3)
                                                               ELSE EmptyOverwrite]
    /\ lockdown_state = EmptyDict
    /\ lockdown_file = EmptyDict
    /\ cmd = [s \in Slots |-> IdleCmd]
    /\ ncmds = 0
    /\ nenv = 0
    /\ rt = [phase |-> "none", pre |-> overwrites, clean |-> FALSE, restarted |-> FALSE]
    /\ GuardCommonInit
    /\ bot_config = [staff |-> StaffRole, immune |-> ImmuneRole]
    /\ security_config = BaseConfig
    /\ security_file = Saved(security_config)
    /\ roles = [u \in Members |-> IF u = 1 THEN {Everyone, StaffRole}
                                  ELSE IF u = 2 THEN {Everyone, MuteRole}
                                  ELSE {Everyone}]

\* the three sweeping commands.  lockdown / unlock and silence have no
\* variable in common, so a behaviour runs the former (one command at a
\* time, with channels coming and going and edits failing) or the latter
\* (with role edits between the commands), not both
SweepNext ==
    \/ /\ nacts = 0
       /\ \/ \E s \in Slots : Quiet /\ LockdownStart(s)
          \/ \E s \in Slots : LockdownResume(s)
          \/ \E s \in Slots, done \in BOOLEAN : LockdownEdit(s, done)
          \/ \E s \in Slots : Quiet /\ UnlockStart(s)
          \/ \E s \in Slots : UnlockResume(s)
          \/ \E s \in Slots, done \in BOOLEAN : UnlockEdit(s, done)
          \/ \E c \in ChanIds : ChannelCreate(c)
          \/ \E c \in ChanIds : ChannelDelete(c)
       /\ UNCHANGED guardVars
    \/ /\ ncmds = 0 /\ nenv = 0
       /\ \/ \E duration \in {0, 30}, fails \in SUBSET {2, Newcomer} :
                Silence(Invoker(1), duration, fails)
          \/ \E fails \in SUBSET {2, Newcomer} : Unmute(fails)
          \/ \E u \in {1, 2} : \E r \in {StaffRole, ImmuneRole, MuteRole} : GrantRole(u, r)
          \/ \E u \in {1, 2} : \E r \in {StaffRole, ImmuneRole, MuteRole} : RevokeRole(u, r)

SweepSpec == SweepInit /\ [][SweepNext]_vars

----------------------------------------------------------------------------
(* AttrSpec *)

\* members 1 and 2 both hold the staff role; nothing is counted yet
AttrInit ==
    /\ LockParked
    /\ GuardCommonInit
    /\ roles = [u \in Members |-> IF u \in {1, 2} THEN {Everyone, StaffRole}
                                  ELSE {Everyone}]
    /\ bot_config = [staff |-> StaffRole, immune |-> ImmuneRole]
    /\ security_config = DefaultConfig
    /\ security_file = Saved(security_config)

\* bans by the two staff members, each either after the hooks of the earlier
\* ones have read the trail or before; the hooks run in any order
AttrNext ==
    \/ \E a \in {1, 2} : ActBan(a)
    \/ \E a \in {1, 2} : BanBeforeRead(a)
    \/ \E i \in 1..(2 * MaxActions), fetched \in BOOLEAN : HandleEvent(i, fetched)

AttrSpec == AttrInit /\ [][AttrNext]_vars

----------------------------------------------------------------------------
(* RetrySpec *)

\* three regular members, nobody muted, the mute role configured
RetryInit ==
    /\ LockParked
    /\ GuardCommonInit
    /\ roles = [u \in Members |-> {Everyone}]
    /\ bot_config = [staff |-> StaffRole, immune |-> ImmuneRole]
    /\ security_config = BaseConfig
    /\ security_file = Saved(security_config)

\* the two commands, in any order and any number of times within the bound,
\* the wake-ups of the silence handlers, and member 2 made staff or not
RetryNext ==
    \/ \E days \in DaysGiven : SetMinAge(days)
    \/ \E duration \in {0, 30}, fails \in SUBSET {1, 2} :
          Silence(Invoker(1), duration, fails)
    \/ \E fails \in SUBSET {1, 2} : Unmute(fails)
    \/ GrantRole(2, StaffRole)
    \/ RevokeRole(2, StaffRole)

RetrySpec == RetryInit /\ [][RetryNext]_vars

----------------------------------------------------------------------------
(* Claims on lockdown / unlock *)

\* a command was invoked in this step and runs in slot s
Invoked(s, op) ==
    /\ ncmds' = ncmds + 1
    /\ cmd'[s] # cmd[s]
    /\ cmd'[s].op = op

\* C1: a lockdown immediately followed by an unlock, with no permission edit
\* failing, no channel created or deleted and no other command overlapping,
\* leaves the four flags of every channel equal to their values before the
\* lockdown, and leaves no LockdownRecord (in memory and in the document).
C1_RoundTrip ==
    (rt.phase = "restored" /\ rt.clean) =>
        /\ \A c \in channels : \A f \in Flags : overwrites[c][f] = rt.pre[c][f]
        /\ GuildKey \notin DOMAIN lockdown_state
        /\ GuildKey \notin DOMAIN lockdown_file

\* a round trip completed, over channels of which the lockdown changed some
C1_Witness ==
    /\ rt.phase = "restored" /\ rt.clean
    /\ \E s \in Slots : cmd[s].op = "unlock" /\ cmd[s].reply = "Unlocked"
                         /\ cmd[s].ok = Cardinality(channels)
    /\ \E c \in channels : rt.pre[c].send_messages = "True" /\ ChanKind(c) = "text"
    /\ \E c \in channels : rt.pre[c].view_channel # "None"

\* C2: a lockdown invoked while a LockdownRecord exists replies AlreadyLocked
\* at once and changes neither the record, nor any channel's overwrite, nor
\* the persisted document.
C2_AlreadyLocked ==
    [][\A s \in Slots :
          (Invoked(s, "lockdown") /\ GuildKey \in DOMAIN lockdown_state) =>
              /\ cmd'[s].pc = "done" /\ cmd'[s].reply = "AlreadyLocked"
              /\ UNCHANGED <<lockdown_state, lockdown_file, overwrites, channels>>]_vars

\* a lockdown was rejected while the record of an earlier one stands
C2_Witness ==
    /\ GuildKey \in DOMAIN lockdown_state
    /\ \E s \in Slots : /\ cmd[s].op = "lockdown" /\ cmd[s].reply = "AlreadyLocked"
                         /\ lockdown_state[GuildKey].moderator_id # Str(cmd[s].user)

\* C3: an unlock invoked while no LockdownRecord exists replies NotLocked at
\* once and changes neither a channel's overwrite, nor the lockdown map, nor
\* the persisted document.
C3_NotLocked ==
    [][\A s \in Slots :
          (Invoked(s, "unlock") /\ GuildKey \notin DOMAIN lockdown_state) =>
              /\ cmd'[s].pc = "done" /\ cmd'[s].reply = "NotLocked"
              /\ UNCHANGED <<lockdown_state, lockdown_file, overwrites, channels>>]_vars

\* an unlock was rejected, on channels that carry overwrites
C3_Witness ==
    /\ GuildKey \notin DOMAIN lockdown_state
    /\ \E s \in Slots : cmd[s].op = "unlock" /\ cmd[s].reply = "NotLocked"
    /\ \E c \in channels : overwrites[c] # EmptyOverwrite

\* C4: lockdown commands for one community are serialized, so the stored
\* savedPermissions always hold the overwrites the channels had before the
\* lockdown (stated for behaviours without gateway disturbance).
C4_SavedArePreLockdown ==
    (nenv = 0 /\ GuildKey \in DOMAIN lockdown_state) =>
        \A c \in channels :
            /\ Str(c) \in DOMAIN lockdown_state[GuildKey].original_perms
            /\ lockdown_state[GuildKey].original_perms[Str(c)] = rt.pre[c]

----------------------------------------------------------------------------
(* Claims on the anti-nuke detector *)

\* the handler that ran last was an anti-nuke hook whose check was made for a
\* non-bot, non-immune staff actor with anti-nuke enabled
OutQualified ==
    /\ out.handler \in AntiNukeHooks
    /\ out.subject \in Humans
    /\ security_config.anti_nuke_enabled
    /\ bot_config.staff \in out.seen[out.subject]
    /\ bot_config.immune \notin out.seen[out.subject]

\* the qualifying checks of the actor and kind of the last handler, oldest first
OutHist == hist[<<out.subject, out.kind>>]

RECURSIVE BurstLen(_)
\* the number of checks at the end of h each less than a window after the
\* one before it
BurstLen(h) ==
    IF Len(h) <= 1 THEN Len(h)
    ELSE IF h[Len(h)].t - h[Len(h) - 1].t < nuke_time_window
         THEN 1 + BurstLen(SubSeq(h, 1, Len(h) - 1))
         ELSE 1

\* C5: for a non-bot, non-immune staff actor with anti-nuke enabled, a check
\* that is at most the 4th of its burst removes no role, and the check that
\* is the 5th within one window (no strip yet in that window) issues
\* remove_roles for every role of the actor but the default one
C5_ThresholdStrip ==
    OutQualified =>
        /\ BurstLen(OutHist) <= nuke_threshold - 1 => out.calls = <<>>
        /\ ( /\ Len(OutHist) = nuke_threshold
             /\ OutHist[nuke_threshold].t - OutHist[1].t < nuke_time_window
             /\ \A i \in 1..(nuke_threshold - 1) : ~OutHist[i].strip )
           => out.calls = <<Call("remove_roles", out.subject,
                                 out.seen[out.subject] \ {Everyone}, 0)>>

\* the 5th check of a burst has just issued the strip, the 4th had not
C5_Witness ==
    /\ OutQualified
    /\ Len(OutHist) = nuke_threshold
    /\ OutHist[nuke_threshold].t - OutHist[1].t < nuke_time_window
    /\ ~OutHist[nuke_threshold - 1].strip
    /\ out.calls # <<>>

\* C6: two checks of one actor and kind that both issued the strip are at
\* least a window apart
C6_OncePerCrossing ==
    \A key \in Humans \X Kinds :
        \A i, j \in 1..Len(hist[key]) :
            (i < j /\ hist[key][i].strip /\ hist[key][j].strip)
                => hist[key][j].t - hist[key][i].t >= nuke_time_window

\* this step is a hook whose check for actor u and kind k was not skipped
Tracked(u, k) ==
    /\ Len(pending') < Len(pending)
    /\ out'.handler \in AntiNukeHooks
    /\ out'.subject = u
    /\ out'.kind = k
    /\ security_config.anti_nuke_enabled
    /\ bot_config.staff \in out'.seen[u]
    /\ bot_config.immune \notin out'.seen[u]

HasEntry(u, k) == Str(u) \in DOMAIN staff_actions /\ k \in DOMAIN staff_actions[Str(u)]

\* C7: a tracked action more than a window after the entry's last_action
\* sets count to 1, one less than a window after it adds exactly 1, the
\* first one sets it to 1; last_action becomes now in every case
C7_WindowReset ==
    [][\A u \in Humans, k \in Kinds :
          Tracked(u, k) =>
            LET new == staff_actions'[Str(u)][k]
            IN  /\ new.last_action = IsoFormat(now)
                /\ ~HasEntry(u, k) => new.count = 1
                /\ HasEntry(u, k) =>
                      LET old  == staff_actions[Str(u)][k]
                          diff == now - FromIsoFormat(old.last_action)
                      IN  /\ diff > nuke_time_window => new.count = 1
                          /\ diff < nuke_time_window => new.count = old.count + 1]_vars

\* a burst of several checks was followed, more than a window later, by a
\* check that set the count back to 1
C7_Witness ==
    \E key \in Humans \X Kinds :
        LET h == hist[key]
        IN  /\ Len(h) >= 3
            /\ h[Len(h)].t - h[Len(h) - 1].t > nuke_time_window
            /\ h[Len(h) - 1].t - h[Len(h) - 2].t < nuke_time_window
            /\ HasEntry(key[1], key[2])
            /\ staff_actions[Str(key[1])][key[2]].count = 1
            /\ staff_actions[Str(key[1])][key[2]].last_action = IsoFormat(h[Len(h)].t)

----------------------------------------------------------------------------
(* Claims on the spam classifier *)

\* the handler that ran last was on_message
OutMsg == out.input

\* the URLs extracted from the message of the last handler
OutLinks == FindAll(OutMsg.content)

\* one of them has a blocklisted domain as a substring
OutBlocklisted ==
    \E i \in 1..Len(OutLinks) : \E j \in 1..Len(OutLinks[i]) :
        OutLinks[i][j] \in scam_domains

\* the classifier was invoked: a message in a guild from an author who does
\* not hold the immune role, with link filtering enabled
OutClassified ==
    /\ out.handler = "message"
    /\ OutMsg.guild
    /\ bot_config.immune \notin out.seen[out.subject]
    /\ security_config.link_filter_enabled

\* calls are the calls of one try block up to the first that raised, and
\* nothing after them
UpToFailure(calls, block) ==
    \E n \in 1..Len(block) :
        /\ calls = SubSeq(block, 1, n)
        /\ n < Len(block) => n \in out.failed

\* C9 as stated: every message from a non-immune author with a blocklisted
\* URL gets the delete, the warning and the 10-minute timeout
C9_ScamPathAnyAuthor ==
    (OutClassified /\ OutBlocklisted /\ out.failed = {})
        => out.calls = ScamCalls(out.subject)

\* C9: with link filtering enabled, a guild message from a non-bot,
\* non-immune author with a blocklisted URL takes the scam path whatever the
\* number of links: delete, warning, 10-minute timeout in this order up to
\* the first call that raises, and when none raises nothing else
C9_ScamPath ==
    (OutClassified /\ ~IsBot(out.subject) /\ OutBlocklisted)
        => /\ out.calls # <<>>
           /\ out.calls[1] = Call("delete", out.subject, {}, 0)
           /\ 1 \notin out.failed =>
                 /\ Len(out.calls) >= 2
                 /\ out.calls[2] = Call("send", out.subject, {}, 0)
           /\ out.failed \cap {1, 2} = {} =>
                 /\ Len(out.calls) >= 3
                 /\ out.calls[3] = Call("timeout", out.subject, {}, 10)
           /\ out.failed = {} => out.calls = ScamCalls(out.subject)

\* a message with a blocklisted URL and at least link_spam_threshold links
\* got exactly the scam path
C9_Witness ==
    /\ OutClassified
    /\ ~IsBot(out.subject)
    /\ OutBlocklisted
    /\ Len(OutLinks) >= security_config.link_spam_threshold
    /\ Len(OutLinks) >= 2
    /\ out.calls = ScamCalls(out.subject)

\* the message of the last handler has no blocklisted URL and fewer distinct
\* mentions than the threshold, and the link threshold is at least 1
OutPlain ==
    /\ OutClassified
    /\ ~OutBlocklisted
    /\ Cardinality(SetOf(OutMsg.mentions)) < security_config.mention_spam_threshold
    /\ security_config.link_spam_threshold >= 1

\* C10 as stated: every such message with exactly link_spam_threshold links
\* gets a delete and a 5-minute timeout, with one link less nothing
C10_VolumeAnyAuthor ==
    (OutPlain /\ out.failed = {})
        => /\ Len(OutLinks) = security_config.link_spam_threshold - 1
                 => out.calls = <<>>
           /\ Len(OutLinks) = security_config.link_spam_threshold
                 => out.calls = VolumeCalls(out.subject)

\* C10: for a guild message from a non-bot, non-immune author with no
\* blocklisted URL and fewer distinct mentions than the threshold, exactly
\* link_spam_threshold - 1 links cause no call at all, and exactly
\* link_spam_threshold links cause the delete and then, unless the delete
\* raised, the 5-minute timeout, and nothing else
C10_VolumeBoundary ==
    (OutPlain /\ ~IsBot(out.subject))
        => /\ Len(OutLinks) = security_config.link_spam_threshold - 1
                 => out.calls = <<>>
           /\ Len(OutLinks) = security_config.link_spam_threshold
                 => /\ UpToFailure(out.calls, VolumeCalls(out.subject))
                    /\ out.failed = {} => out.calls = VolumeCalls(out.subject)

\* a message with exactly link_spam_threshold (more than one) clean links
\* got the delete and the 5-minute timeout
C10_Witness ==
    /\ OutPlain
    /\ ~IsBot(out.subject)
    /\ Len(OutLinks) = security_config.link_spam_threshold
    /\ Len(OutLinks) >= 2
    /\ out.calls = VolumeCalls(out.subject)

----------------------------------------------------------------------------
(* Claims on immunity *)

\* the account held the configured immune role when the last handler read
\* its roles
OutImmune(u) ==
    /\ bot_config.immune \in GuildRoles
    /\ u \in DOMAIN out.seen
    /\ bot_config.immune \in out.seen[u]

\* the last handler issued no call on an account that held the immune role:
\* no add_roles (quarantine, mute), kick, delete, timeout, remove_roles
NoCallOnImmune ==
    \A i \in 1..Len(out.calls) : ~OutImmune(out.calls[i].target)

\* an anti-nuke hook that resolved an actor holding the immune role leaves
\* the staff-action map as it was
NoCountForImmune ==
    \A u \in Members :
        ( /\ Len(pending') < Len(pending)
          /\ out'.handler \in AntiNukeHooks
          /\ out'.subject = u
          /\ bot_config.immune \in GuildRoles
          /\ bot_config.immune \in out'.seen[u] )
        => staff_actions' = staff_actions

\* C8: an account holding the configured immune role receives no protective
\* action from any handler (join gatekeeper, spam classifier, anti-nuke
\* hooks, silence), and its anti-nuke counters are not updated
C8_ImmuneUntouched == [](NoCallOnImmune) /\ [][NoCountForImmune]_vars

\* an immune staff member one ban short of the threshold banned again, and
\* the hook neither counted nor stripped
C8_Witness ==
    /\ out.handler = "ban"
    /\ out.subject \in Humans
    /\ OutImmune(out.subject)
    /\ bot_config.staff \in out.seen[out.subject]
    /\ staff_actions[Str(out.subject)]["ban"].count = nuke_threshold - 1
    /\ out.calls = <<>>

----------------------------------------------------------------------------
(* Claims on the mention check *)

\* the handler ran for a message in a guild whose author does not hold the
\* immune role
OutScreened ==
    /\ out.handler = "message"
    /\ OutMsg.guild
    /\ bot_config.immune \notin out.seen[out.subject]

\* the number of distinct users the message mentions
OutDistinct == Cardinality({OutMsg.mentions[i] : i \in 1..Len(OutMsg.mentions)})

\* the mention check is enabled and the distinct count reaches the threshold
MentionDue ==
    /\ security_config.mention_filter_enabled
    /\ OutDistinct >= security_config.mention_spam_threshold

\* the handler wrote line s to the logger
OutLogged(s) == \E i \in 1..Len(out.log) : out.log[i] = s

\* the mention remediation fired: its try block ended, either way
MentionFired ==
    OutLogged("Deleted mention spam") \/ OutLogged("Failed to handle mention spam")

\* the last calls of the handler are the delete and the 10-minute timeout of
\* the mention block, or its delete alone, which raised
MentionTail ==
    LET n == Len(out.calls)
    IN  \/ /\ n >= 2
           /\ out.calls[n - 1] = Call("delete", out.subject, {}, 0)
           /\ out.calls[n] = Call("timeout", out.subject, {}, 10)
           /\ (n - 1) \notin out.failed
        \/ /\ n >= 1
           /\ out.calls[n] = Call("delete", out.subject, {}, 0)
           /\ n \in out.failed

\* C11 as stated: for every guild message from a non-immune author that the
\* scam path did not consume, the mention remediation fires exactly when the
\* distinct count reaches the threshold with mention filtering enabled
C11_MentionAnyAuthor ==
    (OutScreened /\ ~OutLogged("Deleted scam link"))
        => (MentionFired <=> MentionDue)

\* C11: the count compared with mention_spam_threshold is the number of
\* distinct mentioned users, so a repeated mention never raises it; the
\* mention remediation (delete, then 10-minute timeout unless the delete
\* raised) fires only when that count reaches the threshold with mention
\* filtering enabled, and it does fire then for every guild message from a
\* non-bot, non-immune author on which the scam path did not complete
C11_MentionDistinct ==
    out.handler = "message"
        => /\ MentionFired => (MentionDue /\ MentionTail)
           /\ (/\ OutScreened
               /\ ~IsBot(out.subject)
               /\ ~OutLogged("Deleted scam link")
               /\ MentionDue) => MentionFired

\* a message that repeats a mention and names exactly mention_spam_threshold
\* distinct users got the delete and the 10-minute timeout
C11_Witness ==
    /\ OutScreened
    /\ ~IsBot(out.subject)
    /\ Len(OutMsg.mentions) > OutDistinct
    /\ OutDistinct = security_config.mention_spam_threshold
    /\ OutLinks = <<>>
    /\ out.calls = MentionCalls(out.subject)
    /\ out.failed = {}

----------------------------------------------------------------------------
(* Claims on the join gatekeeper *)

\* the join handler ran for an account that is not a bot and does not hold
\* the immune role
OutJoined ==
    /\ out.handler = "join"
    /\ ~IsBot(out.subject)
    /\ bot_config.immune \notin out.seen[out.subject]

\* the age in days of the account that joined
OutAge == out.input[1]

\* the handler issued a kick
OutKick == \E n \in 1..Len(out.calls) : out.calls[n].op = "kick"

\* C12: with the age check enabled, a non-bot, non-immune account that joins
\* is kicked if and only if its age in whole days is below
\* min_account_age_days, and the reason of the kick cites the age and the
\* minimum
C12_AgeKick ==
    (OutJoined /\ security_config.auto_age_check_enabled)
        => /\ OutKick <=> OutAge < security_config.min_account_age_days
           /\ \A n \in 1..Len(out.calls) :
                 out.calls[n].op = "kick"
                     => out.calls[n].reason
                            = <<OutAge, security_config.min_account_age_days>>

----------------------------------------------------------------------------
(* Claims on the order of the classifier's checks *)

\* C13: once the link-volume remediation has fired for a message (its delete
\* and 5-minute timeout went through), the mention check is not evaluated:
\* the handler issues no further delete or timeout for that message
C13_ShortCircuit ==
    (/\ out.handler = "message"
     /\ ~OutBlocklisted
     /\ OutLogged("Deleted link spam"))
        => /\ ~MentionFired
           /\ out.calls = VolumeCalls(out.subject)

\* C14: a message whose author holds the configured staff role is never
\* deleted and its author never timed out by the classifier, whatever its
\* links and mentions
C14_StaffExempt ==
    (/\ out.handler = "message"
     /\ bot_config.staff # NoRole
     /\ bot_config.staff \in out.seen[out.subject])
        => \A n \in 1..Len(out.calls) : out.calls[n].op \notin {"delete", "timeout"}

----------------------------------------------------------------------------
(* Claims on the independence of the gatekeeper's checks *)

\* what became of the quarantine grant in the last join handler
OutQuarantine ==
    IF OutLogged("Auto-quarantined") THEN "granted"
    ELSE IF OutLogged("Failed to quarantine") THEN "failed"
    ELSE "skipped"

\* C15: the age check is evaluated whatever became of the quarantine grant
\* (granted, failed, or skipped because the role is unconfigured or
\* missing): with the age check enabled an under-age non-bot, non-immune
\* joiner gets the kick in each of the three cases, after the add_roles call
\* when there was one
C15_ChecksIndependent ==
    (/\ OutJoined
     /\ security_config.auto_age_check_enabled
     /\ OutAge < security_config.min_account_age_days)
        => /\ OutQuarantine \in {"granted", "failed", "skipped"}
           /\ out.calls # <<>>
           /\ out.calls[Len(out.calls)].op = "kick"
           /\ OutQuarantine # "skipped"
                 => /\ Len(out.calls) = 2
                    /\ out.calls[1].op = "add_roles"

----------------------------------------------------------------------------
(* Claims on what the anti-nuke hooks do *)

\* the hook that handles event i finds the bot as the actor of the most
\* recent audit entry of its kind
ReadsSelf(i) ==
    /\ pending[i].hook \in AntiNukeHooks
    /\ trail[HookKind(pending[i].hook)] = BotSelf

\* C16: when the most recent audit entry of the kind names the bot itself
\* as actor, a ban, member-remove or channel-delete hook does not run the
\* anti-nuke check: it changes no entry of staff_actions, strips no role and
\* issues no call
C16_SelfCausedIgnored ==
    [][\A i \in 1..Len(pending) : \A fetched \in BOOLEAN :
          (ReadsSelf(i) /\ HandleEvent(i, fetched))
              => /\ staff_actions' = staff_actions
                 /\ roles' = roles
                 /\ out'.calls = <<>>
                 /\ out'.subject = NoUser
                 /\ out'.seen = NoSeen]_vars

\* the ban hook has handled a ban made by the bot while a staff member's
\* count stood one below the threshold, and the count is as it was
C16_Witness ==
    /\ out.handler = "ban"
    /\ out.cause = BotSelf
    /\ trail["ban"] = BotSelf
    /\ out.subject = NoUser
    /\ \E u \in Humans :
          /\ HasEntry(u, "ban")
          /\ staff_actions[Str(u)]["ban"].count = nuke_threshold - 1

\* C17: the only call an anti-nuke hook issues is one remove_roles against
\* the actor, naming every role the actor holds except the default role; no
\* other member's roles change, nobody is kicked, banned or timed out (no
\* audit entry, no event, the actor stays a member), and when the call did
\* not raise the actor holds exactly the default role
C17_StripOnly ==
    [][\A i \in 1..Len(pending) : \A fetched \in BOOLEAN :
          HandleEvent(i, fetched)
              => /\ Len(out'.calls) <= 1
                 /\ trail' = trail
                 /\ pending' = RemoveAt(pending, i)
                 /\ out'.calls = <<>> => roles' = roles
                 /\ out'.calls # <<>> =>
                       LET actor == out'.subject
                       IN  /\ actor # NoUser
                           /\ out'.calls[1]
                                 = Call("remove_roles", actor,
                                        roles[actor] \ {Everyone}, 0)
                           /\ \A u \in Members \ {actor} : roles'[u] = roles[u]
                           /\ Everyone \in roles'[actor]
                           /\ roles'[actor] \subseteq roles[actor]
                           /\ out'.failed = {} => roles'[actor] = {Everyone}]_vars

\* the ban hook stripped a staff member who held two more roles than the
\* default one, and the member holds the default role alone
C17_Witness ==
    /\ out.handler = "ban"
    /\ out.subject \in Humans
    /\ Cardinality(out.seen[out.subject]) >= 3
    /\ Len(out.calls) = 1
    /\ out.failed = {}
    /\ roles[out.subject] = {Everyone}

----------------------------------------------------------------------------
(* Claims on the sweeps of lockdown and unlock *)

\* the channels a handler in its sweep still has to attempt, the current
\* one first
Ahead(s) == <<cmd[s].cur>> \o cmd[s].todo

\* C18: an unlock attempts every channel that exists when its sweep starts,
\* once and in turn, against the saved permissions of the record it read;
\* an edit that returns leaves a channel with a saved entry with exactly the
\* saved value of each of the four flags, and a channel without one (created
\* during the lockdown, say) with no @everyone overwrite at all; no other
\* channel's overwrite changes in that step
C18_UnlockRules ==
    [][\A s \in Slots :
          /\ (UnlockResume(s) /\ cmd'[s].pc = "edit")
                => /\ Ahead(s)' = SortedSeq(channels)
                   /\ cmd'[s].original_perms
                         = lockdown_state[GuildKey].original_perms
          /\ \A done \in BOOLEAN :
                UnlockEdit(s, done)
                    => LET c    == cmd[s].cur
                           orig == cmd[s].original_perms
                       IN  /\ \A d \in ChanIds \ {c} : overwrites'[d] = overwrites[d]
                           /\ ~done => overwrites'[c] = overwrites[c]
                           /\ (done /\ Str(c) \in DOMAIN orig)
                                 => \A f \in Flags :
                                       overwrites'[c][f] = orig[Str(c)][f]
                           /\ (done /\ Str(c) \notin DOMAIN orig)
                                 => overwrites'[c] = EmptyOverwrite
                           /\ cmd'[s].pc = "edit"
                                 => /\ Ahead(s)' = cmd[s].todo
                                    /\ cmd'[s].original_perms = orig]_vars

\* an unlock has gone through four channels without a failure: the one
\* created during the lockdown has no overwrite left, and one that was saved
\* with flags set has them back
C18_Witness ==
    \E s \in Slots :
        /\ cmd[s].op = "unlock"
        /\ cmd[s].reply = "Unlocked"
        /\ cmd[s].ok = 4
        /\ 4 \in channels
        /\ overwrites[4] = EmptyOverwrite
        /\ overwrites[1] \in Profiles
        /\ overwrites[1] = rt.pre[1]

\* the keys of the channels in a sequence
Keys(seq) == {Str(seq[n]) : n \in 1..Len(seq)}

\* C19: in a lockdown an edit that raises never ends the sweep: the handler
\* goes on to the next text or voice channel and captures every channel on
\* its way, keeping what it captured of the channels that failed; when the
\* sweep is over the record holds the captured overwrite of every channel of
\* the sweep, it is stored and written to the document, and the summary that
\* reports success carries the number of edits that raised
C19_BestEffort ==
    [][\A s \in Slots : \A done \in BOOLEAN :
          LockdownEdit(s, done)
              => LET orig  == cmd[s].original_perms
                     swept == DOMAIN orig \cup Keys(cmd[s].todo)
                     nfail == cmd[s].failed + (IF done THEN 0 ELSE 1)
                 IN  /\ Str(cmd[s].cur) \in DOMAIN orig
                     /\ cmd'[s].pc \in {"edit", "done"}
                     /\ cmd'[s].failed = nfail
                     /\ cmd'[s].pc = "edit"
                           => /\ DOMAIN cmd'[s].original_perms \cup Keys(cmd'[s].todo)
                                    = swept
                              /\ \A k \in DOMAIN orig :
                                    cmd'[s].original_perms[k] = orig[k]
                              /\ UNCHANGED <<lockdown_state, lockdown_file>>
                     /\ cmd'[s].pc = "done"
                           => /\ cmd'[s].reply = "LockdownActivated"
                              /\ GuildKey \in DOMAIN lockdown_state'
                              /\ DOMAIN lockdown_state'[GuildKey].original_perms
                                    = swept
                              /\ \A k \in DOMAIN orig :
                                    lockdown_state'[GuildKey].original_perms[k]
                                       = orig[k]
                              /\ lockdown_file' = lockdown_state']_vars

\* a lockdown whose edit of the text channel raised went on to the voice
\* channel and ended with a record that holds all three channels
C19_Witness ==
    \E s \in Slots :
        /\ cmd[s].op = "lockdown"
        /\ cmd[s].reply = "LockdownActivated"
        /\ cmd[s].failed = 1
        /\ cmd[s].ok = 1
        /\ GuildKey \in DOMAIN lockdown_state
        /\ DOMAIN lockdown_state[GuildKey].original_perms = {Str(1), Str(2), Str(3)}
        /\ overwrites[1] = rt.pre[1]
        /\ overwrites[2] = PermissionOverwrite(LockKwargs(2))
        /\ lockdown_file = lockdown_state

\* an unlock handler is in its per-channel sweep
Sweeping(s) == cmd[s].op = "unlock" /\ cmd[s].pc = "edit"

\* the record is there while an unlock sweeps
RecordWhileSweeping == \A s \in Slots : Sweeping(s) => GuildKey \in DOMAIN lockdown_state

\* the step in which an unlock ends its sweep deletes the record, whether or
\* not an edit failed, and leaves the guild unlocked
DeletedAfterSweep ==
    \A s \in Slots :
        (Sweeping(s) /\ ~Sweeping(s)')
            => /\ cmd[s].todo = <<>>
               /\ cmd'[s].reply = "Unlocked"
               /\ GuildKey \notin DOMAIN lockdown_state'
               /\ NotLocked(lockdown_state')

\* C20: the record is present throughout the per-channel sweep of an unlock
\* and is deleted only after the last channel was attempted, whether or not
\* some channel failed; after a completed unlock the guild is unlocked and a
\* further unlock returns NotLocked
C20_RecordThroughSweep == [](RecordWhileSweeping) /\ [][DeletedAfterSweep]_vars

----------------------------------------------------------------------------
(* Claims on the staff-action map *)

\* the entry of actor u and kind k in a staff-action map, an absent one read
\* as count 0
EntryOf(sa, u, k) ==
    IF Str(u) \in DOMAIN sa /\ k \in DOMAIN sa[Str(u)]
    THEN sa[Str(u)][k]
    ELSE [count |-> 0, last_action |-> NoneTime]

\* C21: the counters are keyed and updated without loss: the hook that
\* handles the event of an action of kind k by actor u changes no entry but
\* that of (u, k), and changes that one by adding 1 or by setting it back to
\* 1; so the kick entry of an actor moves only with that actor's kicks (4
\* bans plus 4 kicks in a window reach no threshold)
C21_KeyedCounts ==
    [][\A i \in 1..Len(pending) : \A fetched \in BOOLEAN :
          HandleEvent(i, fetched)
              => \A u \in Humans, k \in Kinds :
                    LET old == EntryOf(staff_actions, u, k)
                        new == EntryOf(staff_actions', u, k)
                    IN  new # old
                           => /\ u = pending[i].cause
                              /\ k = pending[i].kind
                              /\ new.count \in {1, old.count + 1}]_vars

----------------------------------------------------------------------------
(* Claims on the mass mute *)

\* the members the deferred unmute has to unmute, from the roles it read when
\* it fired: those still in the guild who hold the mute role and neither
\* the immune role nor the staff role
UnmuteDue ==
    {m \in Members : /\ out.seen[m] # {}
                     /\ MuteRole \in out.seen[m]
                     /\ bot_config.immune \notin out.seen[m]
                     /\ bot_config.staff \notin out.seen[m]}

\* C22: the deferred unmute decides from the roles at fire time: it calls
\* remove_roles(mute role) once for every member then present who holds the
\* mute role and neither the immune nor the staff role, for nobody else (a
\* member who left gets no call), and a call that raised is followed by the
\* calls for the remaining members
C22_UnmuteAtFireTime ==
    out.handler = "unmute"
        => /\ {out.calls[n].target : n \in 1..Len(out.calls)} = UnmuteDue
           /\ Len(out.calls) = Cardinality(UnmuteDue)
           /\ \A n \in 1..Len(out.calls) :
                 out.calls[n] = Call("remove_roles", out.calls[n].target, {MuteRole}, 0)
           /\ out.failed \subseteq 1..Len(out.calls)

\* an unmute fired after a muted member had been granted the immune role: it
\* skipped that member, and went on to the next member after its first call
\* had raised
C22_Witness ==
    /\ out.handler = "unmute"
    /\ \E m \in Members : {MuteRole, ImmuneRole} \subseteq out.seen[m]
    /\ Len(out.calls) = 2
    /\ 1 \in out.failed
    /\ 2 \notin out.failed

----------------------------------------------------------------------------
(* Claims on the configuration and on restarts *)

\* C23: the in-memory SecurityConfig always defines every recognized key,
\* whatever security_config.json a start found (absent, unreadable, or an
\* object lacking any of the keys) and whatever set_min_age commands followed;
\* and right after a start, every key the file holds has the file's value in
\* memory.
C23_ConfigComplete ==
    /\ ConfigKeys \subseteq DOMAIN security_config
    /\ out.handler = "restart"
          => \A key \in DOMAIN security_file.doc :
                 security_config[key] = security_file.doc[key]

\* a start found an object with some keys missing: the file's minimum age is
\* in memory and the missing mute role id has its default
C23_Witness ==
    /\ out.handler = "restart"
    /\ out.input = <<"object">>
    /\ "min_account_age_days" \in DOMAIN security_file.doc
    /\ "mute_role_id" \notin DOMAIN security_file.doc
    /\ security_config.min_account_age_days = FileConfig.min_account_age_days
    /\ security_config.mute_role_id = DefaultConfig.mute_role_id

----------------------------------------------------------------------------
(* Claims on failures of gateway calls *)

\* the lines the except clauses of the event handlers write
ErrorLines ==
    {"Failed to handle scam link", "Failed to handle link spam",
     "Failed to handle mention spam", "Failed to quarantine", "Failed to kick",
     "Failed to handle anti-nuke"}

\* how many except clauses the last handler entered
OutCaught == Cardinality({i \in 1..Len(out.log) : out.log[i] \in ErrorLines})

\* C25: a gateway call that fails in the message, join, ban, member-remove
\* or channel-delete handler is caught by the except clause of its try block
\* (one logged error per failed call) or by the hook's bare except, and the
\* handler goes on: the message handler always ends normally, the join
\* handler still kicks an under-age account after a quarantine grant that
\* failed, and the only exception that ever leaves the join handler is the
\* TypeError of the age subtraction, which no gateway call raises.
C25_FailuresContained ==
    out.handler \in {"message", "join"} \cup AntiNukeHooks
        => /\ OutCaught = Cardinality(out.failed)
           /\ out.handler = "message" => out.kind = "none"
           /\ out.handler = "join"
                 => /\ out.kind \in {"none", "TypeError"}
                    /\ out.kind = "TypeError" => security_config.auto_age_check_enabled
                    /\ (/\ OutLogged("Failed to quarantine")
                        /\ out.kind = "none"
                        /\ security_config.auto_age_check_enabled
                        /\ OutAge < security_config.min_account_age_days) => OutKick

\* after a join whose quarantine grant failed, the next event, a message, is
\* handled, and a call of its remediation fails too
C25_Witness ==
    /\ out.handler = "message"
    /\ out.failed # {}
    /\ out.calls # <<>>
    /\ roles[Newcomer] = {Everyone}
    /\ security_config.auto_quarantine_enabled
    /\ GetRole(security_config.quarantine_role_id) # NoRole

----------------------------------------------------------------------------
(* Claims on silence *)

\* C26: silence with no mute role configured, or with a configured mute role
\* that the guild no longer has, replies with the precondition failure
\* ("not configured", "not found") and does nothing else: it calls
\* add_roles for nobody, no member's roles change, and no unmute is left
\* sleeping.
C26_SilencePrecondition ==
    [][\A duration \in {0, 30}, fails \in SUBSET Humans :
          (/\ Silence(Invoker(1), duration, fails)
           /\ security_config.mute_role_id \notin GuildRoles)
              => /\ out'.kind = IF security_config.mute_role_id = NoRole
                                THEN "NotConfigured" ELSE "NotFound"
                 /\ out'.calls = <<>>
                 /\ roles' = roles
                 /\ sleepers' = sleepers]_vars

\* a timed silence was refused because the configured mute role is gone,
\* with a member in the guild whom it would have muted
C26_Witness ==
    /\ out.handler = "silence"
    /\ out.kind = "NotFound"
    /\ out.input = <<30>>
    /\ roles[2] = {Everyone}

----------------------------------------------------------------------------
(* Claims on the window boundary *)

\* C27: a tracked action resets the count of its (actor, kind) entry to 1
\* only when more than nuke_time_window seconds have passed since the
\* entry's last_action; an action exactly nuke_time_window seconds after it
\* is still within the window and adds 1.
C27_WindowBoundary ==
    [][\A u \in Humans, k \in Kinds :
          (Tracked(u, k) /\ HasEntry(u, k)) =>
            LET old  == staff_actions[Str(u)][k]
                new  == staff_actions'[Str(u)][k]
                diff == now - FromIsoFormat(old.last_action)
            IN  /\ new.count = 1 => diff > nuke_time_window
                /\ diff = nuke_time_window => new.count = old.count + 1]_vars

----------------------------------------------------------------------------
(* Claims on the link path *)

\* the link-volume remediation ran: its try block ended, either way
VolumeFired ==
    OutLogged("Deleted link spam") \/ OutLogged("Failed to handle link spam")

\* C28: for a message that contains a blocklisted URL the link-volume
\* remediation is never applied (neither its delete nor its 5-minute
\* timeout is issued), also when a step of the scam remediation fails.
C28_ScamExcludesVolume ==
    (out.handler = "message" /\ OutBlocklisted)
        => /\ ~VolumeFired
           /\ \A n \in 1..Len(out.calls) :
                 ~(out.calls[n].op = "timeout" /\ out.calls[n].mins = 5)

----------------------------------------------------------------------------
(* Claims on the skip conditions of the detector *)

\* the actor a hook resolves from the audit trail for its event
Resolved(i) == trail[HookKind(pending[i].hook)]

\* what the skip conditions say of actor u: anti-nuke is off, u is a bot,
\* u holds the immune role, or u does not hold a configured, existing staff
\* role
SkipDue(u) ==
    \/ ~security_config.anti_nuke_enabled
    \/ u \in {BotSelf, OtherBot}
    \/ (bot_config.immune \in GuildRoles /\ bot_config.immune \in roles[u])
    \/ bot_config.staff \notin GuildRoles
    \/ bot_config.staff \notin roles[u]

\* C29: when anti-nuke is disabled, or the actor a hook resolved is a bot,
\* is immune, or does not hold the configured staff role (none configured,
\* or the role deleted, included), the check changes nothing in the
\* staff-action map and removes no role from anybody.
C29_SkipsChangeNothing ==
    [][\A i \in 1..Len(pending) :
          (/\ HandleEvent(i, TRUE)
           /\ Resolved(i) # NoUser
           /\ SkipDue(Resolved(i)))
              => /\ staff_actions' = staff_actions
                 /\ roles' = roles
                 /\ out'.calls = <<>>]_vars

\* an immune staff member one ban short of the threshold banned again: the
\* count stands and the roles are kept
C29_Witness ==
    /\ out.handler = "ban"
    /\ out.subject = 1
    /\ {StaffRole, ImmuneRole} \subseteq out.seen[1]
    /\ EntryOf(staff_actions, 1, "ban").count = nuke_threshold - 1
    /\ roles[1] = out.seen[1]

----------------------------------------------------------------------------
(* Claims on what a lockdown leaves behind *)

\* a lockdown completed with no edit failing, no other command overlapping
\* and no channel created or deleted since it began
LockedClean == rt.phase = "locked" /\ rt.clean

\* the flags a lockdown denies on channel c
Denied(c) ==
    CASE ChanKind(c) = "text"  -> {"send_messages"}
      [] ChanKind(c) = "voice" -> {"connect", "speak"}
      [] OTHER                 -> {}

\* after such a lockdown the denied flags of every text and voice channel
\* are False and savedPermissions hold the pre-lockdown overwrite of every
\* channel
C30_DeniedAndCaptured ==
    LockedClean
        => \A c \in channels :
              /\ \A f \in Denied(c) : overwrites[c][f] = "False"
              /\ Str(c) \in DOMAIN lockdown_state[GuildKey].original_perms
              /\ lockdown_state[GuildKey].original_perms[Str(c)] = rt.pre[c]

\* C30: after a lockdown in which no permission edit failed, every text
\* channel has send_messages denied and every voice channel connect and
\* speak, the view flag of every channel and all four flags of channels
\* that are neither text nor voice are as before the lockdown, and the
\* pre-lockdown overwrite of every channel is in savedPermissions.
C30_LockdownFrame ==
    /\ C30_DeniedAndCaptured
    /\ LockedClean
          => \A c \in channels :
                /\ overwrites[c].view_channel = rt.pre[c].view_channel
                /\ Denied(c) = {} => overwrites[c] = rt.pre[c]

----------------------------------------------------------------------------
(* Claims on set_min_age *)

\* set_min_age(days) accepts exactly 0 <= days <= 365; an accepted value is
\* in memory and in the file with every other key as it was, a rejected one
\* changes neither
SetMinAgeRule ==
    \A days \in DaysGiven :
        SetMinAge(days)
            => IF 0 <= days /\ days <= 365
               THEN /\ security_config'
                          = [security_config EXCEPT !.min_account_age_days = days]
                    /\ security_file' = Document(security_config')
               ELSE UNCHANGED <<security_config, security_file>>

\* the minimum age in memory and in the file is within 0..365
MinAgeInRange ==
    /\ security_config.min_account_age_days \in 0..365
    /\ security_file.doc.min_account_age_days = security_config.min_account_age_days

\* the join handler kicked exactly when the account's age is below the
\* minimum in force
JoinJudged ==
    (OutJoined /\ security_config.auto_age_check_enabled)
        => (OutKick <=> OutAge < security_config.min_account_age_days)

\* the two statements on set_min_age alone
C31_SetMinAgeOnly == [][SetMinAgeRule]_vars /\ []MinAgeInRange

\* C31: set_min_age(days) accepts exactly 0 <= days <= 365 (accepted: memory
\* and file hold days, every other key unchanged; rejected: nothing
\* changes), so min_account_age_days stays within 0..365, and the next join
\* is judged against the latest accepted value.
C31_MinAge == [][SetMinAgeRule]_vars /\ []MinAgeInRange /\ []JoinJudged

----------------------------------------------------------------------------
(* Claims on the counts of the sweeps *)

\* the channels of a saved-permissions map that a lockdown edits
Lockable(orig) ==
    {c \in ChanIds : Str(c) \in DOMAIN orig /\ ChanKind(c) \in {"text", "voice"}}

\* the members a silence has to mute, given the roles it reads
Eligible(seen) ==
    {m \in Members : /\ seen[m] # {}
                     /\ ~IsBot(m)
                     /\ bot_config.immune \notin seen[m]
                     /\ bot_config.staff \notin seen[m]
                     /\ MuteRole \notin seen[m]}

\* one step of a lockdown or unlock handler keeps the account: an unlock
\* starts its sweep with every channel of the guild ahead; each edit,
\* returned or raised, adds one to exactly one of the two counts and leaves
\* one channel less ahead; the summary of an unlock is sent after the last
\* channel, and the counts in the summary of a lockdown add up to the text
\* and voice channels it captured
SweepStep ==
    \A s \in Slots :
        /\ (UnlockResume(s) /\ cmd'[s].pc = "edit")
              => /\ Len(Ahead(s)') = Cardinality(channels)
                 /\ cmd'[s].ok + cmd'[s].failed = 0
        /\ \A done \in BOOLEAN :
              (UnlockEdit(s, done) \/ LockdownEdit(s, done))
                  => /\ cmd'[s].pc \in {"edit", "done"}
                        => /\ cmd'[s].ok = cmd[s].ok + (IF done THEN 1 ELSE 0)
                           /\ cmd'[s].failed = cmd[s].failed + (IF done THEN 0 ELSE 1)
                     /\ cmd'[s].pc = "edit"
                           => /\ Len(Ahead(s)') < Len(Ahead(s))
                              /\ cmd[s].op = "unlock" => Len(Ahead(s)') = Len(Ahead(s)) - 1
                     /\ cmd'[s].reply = "Unlocked" => Len(Ahead(s)) = 1
        /\ (cmd'[s] # cmd[s] /\ cmd'[s].reply = "LockdownActivated")
              => cmd'[s].ok + cmd'[s].failed
                    = Cardinality(Lockable(lockdown_state'[GuildKey].original_perms))

\* the calls of a silence are one per member it has to mute, and each call
\* either muted its member or is among the failed ones
SilenceCounts ==
    (out.handler = "silence" /\ out.kind = "Silenced")
        => /\ {out.calls[n].target : n \in 1..Len(out.calls)} = Eligible(out.seen)
           /\ Len(out.calls) = Cardinality(Eligible(out.seen))
           /\ out.failed \subseteq 1..Len(out.calls)
           /\ Len(out.log) = Cardinality(out.failed)

\* C32: the sweeps account for every item.  For unlock, succeeded + failed
\* is the number of channels the guild had when the sweep started; for
\* lockdown, every text or voice channel is counted once, as locked or as
\* failed; for silence, muted + failed is the number of non-bot, non-immune,
\* non-staff members that did not hold the mute role.
C32_SweepCounts == [][SweepStep]_vars /\ []SilenceCounts

\* an unlock swept three channels, one edit raised, and its summary says two
\* unlocked and one failed
C32_Witness ==
    \E s \in Slots :
        /\ cmd[s].op = "unlock"
        /\ cmd[s].reply = "Unlocked"
        /\ cmd[s].ok = 2
        /\ cmd[s].failed = 1
        /\ Cardinality(channels) = 3

----------------------------------------------------------------------------
(* Claims on how the window is measured *)

\* C33: revocation takes nuke_threshold actions inside one window: when the
\* last nuke_threshold checks of an actor and kind were each less than
\* nuke_time_window seconds after the one before, but the first and the last
\* of them are more than nuke_time_window seconds apart, the last one does
\* not revoke.
C33_WindowOverBurst ==
    \A key \in Humans \X Kinds :
        LET h == hist[key]
        IN  (/\ Len(h) = nuke_threshold
             /\ \A i \in 2..Len(h) : h[i].t - h[i - 1].t < nuke_time_window
             /\ h[Len(h)].t - h[1].t > nuke_time_window)
                => ~h[Len(h)].strip

----------------------------------------------------------------------------
(* Claims on the attribution of events *)

\* C34: a member-remove event that no kick caused (a member who left, or the
\* removal that comes with a ban) changes no entry of the staff-action map,
\* whoever the newest kick entry of the audit trail belongs to.
C34_RemoveWithoutKick ==
    [][\A i \in 1..Len(pending) : \A fetched \in BOOLEAN :
          (/\ HandleEvent(i, fetched)
           /\ pending[i].hook = "remove"
           /\ pending[i].kind # "kick")
              => staff_actions' = staff_actions]_vars

\* C35: attribution under interleaving: the hook of a ban changes the
\* staff-action entry of nobody but the actor who caused that ban, also when
\* another staff member's ban was appended to the audit trail before the
\* hook read it.
C35_AttributedToCause ==
    [][\A i \in 1..Len(pending) : \A fetched \in BOOLEAN :
          (HandleEvent(i, fetched) /\ pending[i].hook = "ban")
              => \A u \in Humans, k \in Kinds :
                    EntryOf(staff_actions', u, k) # EntryOf(staff_actions, u, k)
                        => u = pending[i].cause]_vars

----------------------------------------------------------------------------
(* Claims on the end of a command *)

\* C36: every lockdown or unlock invocation that has ended, two overlapping
\* unlock commands included, ended without an exception and has sent its
\* caller a reply.
C36_EveryCommandReplies ==
    \A s \in Slots :
        (cmd[s].op \in {"lockdown", "unlock"} /\ ~InFlight(s))
            => /\ cmd[s].pc = "done"
               /\ cmd[s].reply # "none"

----------------------------------------------------------------------------
(* Claims on overlapping and repeated commands *)

\* the members the silence command observed in out has given the mute role
OutMuted == {out.calls[n].target : n \in (1..Len(out.calls)) \ out.failed}

\* C37: overlapping silence commands: while a later silence command still
\* sleeps (two handlers asleep, the newest command observed being the later
\* one; the durations are equal, so the handler that wakes is the earlier
\* one), the deferred unmute takes the mute role from no member the later
\* command has muted.
C37_LaterSilenceKept ==
    [][\A fails \in SUBSET Members :
          (/\ Unmute(fails)
           /\ sleepers >= 2
           /\ out.handler = "silence" /\ out.kind = "Silenced" /\ out.input # <<0>>)
              => \A m \in OutMuted :
                    MuteRole \in roles[m] => MuteRole \in roles'[m]]_vars

\* C38: the deferred unmute of the only sleeping silence command (the command
\* observed in out) leaves the mute role with every member who held it
\* already when that command read the members.
C38_UnmuteOnlyOwn ==
    [][\A fails \in SUBSET Members :
          (/\ Unmute(fails)
           /\ sleepers = 1
           /\ out.handler = "silence" /\ out.kind = "Silenced" /\ out.input # <<0>>)
              => \A m \in Members :
                    (MuteRole \in out.seen[m] /\ MuteRole \in roles[m])
                        => MuteRole \in roles'[m]]_vars

\* the members who hold the mute role
Muted(rs) == {m \in Members : MuteRole \in rs[m]}

\* the roles as the silence command observed in out left them
RolesAfterOut ==
    [m \in Members |-> IF m \in OutMuted THEN out.seen[m] \cup {MuteRole}
                       ELSE out.seen[m]]

\* the members whose add_roles call raised in the silence command observed
OutRaised == {out.calls[n].target : n \in out.failed}

\* set_min_age(d) right after set_min_age(d): nothing changes
SetMinAgeAgain ==
    \A days \in DaysGiven :
        (out.handler = "set_min_age" /\ out.input = <<days>> /\ SetMinAge(days))
            => /\ security_config' = security_config
               /\ security_file' = security_file

\* silence right after silence, the members and their roles as the first
\* call left them
SilenceAgain(duration, fails) ==
    /\ out.handler = "silence" /\ out.kind = "Silenced"
    /\ roles = RolesAfterOut
    /\ Silence(Invoker(1), duration, fails)

\* the second call calls add_roles for no member who holds the mute role
SilenceAgainSkips ==
    \A duration \in {0, 30}, fails \in SUBSET {1, 2} :
        SilenceAgain(duration, fails)
            => \A n \in 1..Len(out'.calls) :
                  MuteRole \notin roles[out'.calls[n].target]

\* as stated: the muted members are those after one call
SilenceAgainSame ==
    \A duration \in {0, 30}, fails \in SUBSET {1, 2} :
        SilenceAgain(duration, fails) => Muted(roles') = Muted(roles)

\* the second call calls add_roles for exactly the members whose call raised
\* in the first, and mutes those for whom it does not raise again
SilenceAgainRetries ==
    \A duration \in {0, 30}, fails \in SUBSET {1, 2} :
        SilenceAgain(duration, fails)
            => /\ {out'.calls[n].target : n \in 1..Len(out'.calls)} = OutRaised
               /\ Muted(roles') = Muted(roles) \cup (OutRaised \ fails)
               /\ OutRaised = {} => Muted(roles') = Muted(roles)

\* C39 as stated: set_min_age(d) twice leaves the configuration of once, and
\* silence twice with unchanged membership mutes no member a second time, so
\* that the muted members are those after one call.
C39_RetryIdempotent ==
    [][SetMinAgeAgain /\ SilenceAgainSkips /\ SilenceAgainSame]_vars

\* C39, amended: set_min_age(d) twice leaves the configuration of once, and
\* silence twice with unchanged membership calls add_roles for no member who
\* holds the mute role: it calls it for the members whose call raised the
\* first time, and the muted members are those after one call and those of
\* them whose call now succeeds (the same set when no call raised).
C39_RetryMutesTheFailed ==
    [][SetMinAgeAgain /\ SilenceAgainSkips /\ SilenceAgainRetries]_vars

\* silence ran twice with no wake-up between: the second call skipped the
\* muted member 1 and called add_roles for member 2 alone, whose call had
\* raised the first time; the minimum age had been set
C39_Witness ==
    /\ out.handler = "silence"
    /\ sleepers = 2
    /\ nacts = 2
    /\ MuteRole \in out.seen[1]
    /\ MuteRole \notin out.seen[2]
    /\ out.calls = <<Call("add_roles", 2, {MuteRole}, 0)>>
    /\ out.failed = {}
    /\ security_config.min_account_age_days = 365

============================================================================
